---- MODULE Spec2Model ----
(***************************************************************************)
(* A model of obstools/atacr/classes.py: the DayNoise, StaNoise, TFNoise   *)
(* and EventStream classes.  Python's 0-based positions are 1-based here.  *)
(* Real numbers are exact: a penalty is carried as twice its value (the    *)
(* median of an even number of values is a half-integer), and every        *)
(* comparison with a standard deviation is made on the squares.            *)
(***************************************************************************)
EXTENDS Integers, Sequences, FiniteSets, TLC

\* ------------------------------------------------------------- bounds
\* Most windows (days) one quality-control run starts from.
MaxWin == 4

\* A Python attribute or argument that may be None or unset: <<>> when it is,
\* <<v>> when it holds v.
None == <<>>
Some(v) == <<v>>

\* ------------------------------------------------------------- numbers
\* A real number is an exact fraction <<n, d>> in lowest terms with d > 0.
\* What numpy makes of a division by zero (inf or nan, with a warning) is
\* NonFinite, and every operation on it gives it back.
Abs(x) == IF x < 0 THEN -x ELSE x

RECURSIVE Gcd(_, _)
Gcd(a, b) == IF b = 0 THEN a ELSE Gcd(b, a % b)

NonFinite == <<0, 0>>

Frac(n, d) ==
    IF d = 0 THEN NonFinite
    ELSE LET g == Gcd(Abs(n), Abs(d))
             sgn == IF d < 0 THEN -1 ELSE 1
         IN  <<(sgn * n) \div g, (sgn * d) \div g>>

Whole(n) == <<n, 1>>

IsFinite(q) == q[2] # 0

QAdd(p, q) == IF IsFinite(p) /\ IsFinite(q)
              THEN Frac(p[1] * q[2] + q[1] * p[2], p[2] * q[2]) ELSE NonFinite
QNeg(p) == IF IsFinite(p) THEN <<-p[1], p[2]>> ELSE NonFinite
QSub(p, q) == QAdd(p, QNeg(q))
QMul(p, q) == IF IsFinite(p) /\ IsFinite(q)
              THEN Frac(p[1] * q[1], p[2] * q[2]) ELSE NonFinite
QDiv(p, q) == IF IsFinite(p) /\ IsFinite(q)
              THEN Frac(p[1] * q[2], p[2] * q[1]) ELSE NonFinite

\* A complex number is <<re, im>>, two fractions.
Cx(re, im) == <<Whole(re), Whole(im)>>
Re(z) == z[1]
Im(z) == z[2]
CFinite(z) == IsFinite(z[1]) /\ IsFinite(z[2])
CNonFinite == <<NonFinite, NonFinite>>
CClean(z) == IF CFinite(z) THEN z ELSE CNonFinite
CAdd(z, w) == CClean(<<QAdd(z[1], w[1]), QAdd(z[2], w[2])>>)
CSub(z, w) == CClean(<<QSub(z[1], w[1]), QSub(z[2], w[2])>>)
CMul(z, w) == CClean(<<QSub(QMul(z[1], w[1]), QMul(z[2], w[2])),
                       QAdd(QMul(z[1], w[2]), QMul(z[2], w[1]))>>)
\* np.conj
CConj(z) == CClean(<<z[1], QNeg(z[2])>>)
\* np.abs(z)**2
CAbs2(z) == QAdd(QMul(z[1], z[1]), QMul(z[2], z[2]))
CDiv(z, w) ==
    LET m == CAbs2(w)
        n == CMul(z, CConj(w))
    IN  CClean(<<QDiv(n[1], m), QDiv(n[2], m)>>)
COne == Cx(1, 0)
CZero == Cx(0, 0)

\* Elementwise operations on arrays of complex numbers (SubSeq makes the
\* array a tuple of computed values).
Arr(a) == SubSeq(a, 1, Len(a))
ArrMul(a, b) == Arr([i \in 1..Len(a) |-> CMul(a[i], b[i])])
ArrDiv(a, b) == Arr([i \in 1..Len(a) |-> CDiv(a[i], b[i])])
ArrSub(a, b) == Arr([i \in 1..Len(a) |-> CSub(a[i], b[i])])
ArrConj(a) == Arr([i \in 1..Len(a) |-> CConj(a[i])])
\* 1. - a
ArrOneMinus(a) == Arr([i \in 1..Len(a) |-> CSub(COne, a[i])])
\* a*x for a real a
ArrScale(a, x) == Arr([i \in 1..Len(x) |-> CMul(<<a, Whole(0)>>, x[i])])

\* ------------------------------------------------------------- numpy helpers
RECURSIVE SumSeq(_)
SumSeq(s) == IF s = <<>> THEN 0 ELSE Head(s) + SumSeq(Tail(s))

RECURSIVE SumSq(_)
SumSq(s) == IF s = <<>> THEN 0 ELSE Head(s) * Head(s) + SumSq(Tail(s))

\* np.sum(mask): the number of True entries.
RECURSIVE CountTrue(_)
CountTrue(m) == IF m = <<>> THEN 0
                ELSE (IF Head(m) THEN 1 ELSE 0) + CountTrue(Tail(m))

\* np.argwhere(mask == True): the positions of the True entries, ascending.
RECURSIVE ArgwhereFrom(_, _)
ArgwhereFrom(m, i) ==
    IF i > Len(m) THEN <<>>
    ELSE IF m[i] THEN <<i>> \o ArgwhereFrom(m, i + 1)
         ELSE ArgwhereFrom(m, i + 1)

Argwhere(m) == ArgwhereFrom(m, 1)

\* The values of s in ascending order.
RECURSIVE Ascending(_)
Ascending(s) ==
    IF s = <<>> THEN <<>>
    ELSE LET m == CHOOSE i \in 1..Len(s) : \A j \in 1..Len(s) : s[i] <= s[j]
         IN  <<s[m]>> \o Ascending([k \in 1..(Len(s) - 1) |-> IF k < m THEN s[k] ELSE s[k + 1]])

\* Twice np.median(s), s not empty: the middle value, or the mean of the two
\* middle values.
Median2(s) ==
    LET t == Ascending(s)
        n == Len(s)
    IN  IF n % 2 = 1 THEN 2 * t[(n + 1) \div 2]
        ELSE t[n \div 2] + t[n \div 2 + 1]

\* n*n*variance of p (np.std squared, times n squared).
VarN2(p) == Len(p) * SumSq(p) - SumSeq(p) * SumSeq(p)

\* p > tol*np.std(p), entry by entry, with tol = tol[1]/tol[2] > 0.  The right
\* side is not negative, so entry i passes when p[i] > 0 and
\* (p[i]*n*tol[2])^2 > tol[1]^2 * n^2*var(p).
ExceedsStd(p, tol) ==
    LET v == tol[1] * tol[1] * VarN2(p)
        n == Len(p)
    IN  [i \in 1..n |-> p[i] > 0 /\ (p[i] * n * tol[2]) * (p[i] * n * tol[2]) > v]

\* p[np.argwhere(mask == False)].T[0]: the entries of p the mask leaves out.
RECURSIVE Unflagged(_, _)
Unflagged(p, kill) ==
    IF p = <<>> THEN <<>>
    ELSE IF Head(kill) THEN Unflagged(Tail(p), Tail(kill))
         ELSE <<Head(p)>> \o Unflagged(Tail(p), Tail(kill))

\* ------------------------------------------------------------- state
VARIABLES
    stage,      \* "daily": a DayNoise runs QC_daily_spectra; "sta": a StaNoise runs QC_sta_spectra
    ncomp,      \* self.ncomp of that object
    pc,         \* "new", "norm" (the loop over dsls), "decide", "done" (returned), "raised"
    tol,        \* the tol argument, <<numerator, denominator>>
    cols,       \* the windows (days) whose spectra this run is given, by identity
    goodwins,   \* the local mask goodwins (gooddays), one entry per column
    indwin,     \* np.argwhere(goodwins == True)
    ind_u,      \* channels of dsls already scored in this pass
    penalty,    \* twice the column sums of the rows of ubernorm filled so far
    self_good,  \* the attribute self.goodwins (self.gooddays), None until stored
    iter,       \* passes of the while loop entered in this run
    run,        \* 1: the first run; 2: the run on the windows that survived it
    ftest_sig,  \* the answer of the last pass's F-test: <<>> when the pass ran none
    removed,    \* history: per removal of this run, the windows it switched off
    lastEval,   \* the spectra are fixed: the good-set the run ended on, its penalty and F-test answer
    noise,      \* the DayNoise or StaNoise object built, None before: [cls, ncomp, tf_list]
    tfn,        \* the TFNoise object, None before: [f, sp, tilt, tf_list, transfunc]
    ev,         \* the EventStream object, None before: [ncomp, ev_list, f, ft, ws, correct]
    exc,        \* the exception the last call raised, "" when it returned
    op,         \* the last call made
    computed,   \* history: the models whose corrected trace the last correct_data computed
    sta,        \* the StaNoise whose days are averaged, None elsewhere: [ncomp, nwins, level, gooddays]
    avg,        \* its power, cross and rotation containers after average_sta_spectra
    obj,        \* an object by its attributes, None elsewhere: [cls, ncomp, attrs, rotation]
    pickled,    \* the attributes of the object pickle.dump last wrote, None before
    syn,        \* a synthetic record Z = noise_Z + coupling*P on its way through the
                \* chain, None elsewhere: [c, Pw, Nw, Pe, Ne, sp, transfunc, corrspec]
    win,        \* the windowing of a day, None elsewhere: [window, overlap, wind, hop, step]
    herm,       \* a one-sided array and its full spectrum: [TF, n, full], None elsewhere
    args        \* what the last constructor call was given: the four traces (DayNoise) or
                \* the Power and Cross containers (StaNoise, TFNoise); None after any other call

qcVars == <<stage, ncomp, pc, tol, cols, goodwins, indwin, ind_u, penalty,
            self_good, iter, run, ftest_sig, removed, lastEval>>

tfVars == <<noise, tfn, ev, exc, op, computed>>

avVars == <<sta, avg>>

\* The operations checked on their own.
unitVars == <<herm, obj, pickled, syn, win>>

vars == <<qcVars, tfVars, avVars, unitVars, args>>

\* None of them is under way.
IdleObj == obj = None /\ pickled = None

IdleUnit == herm = None /\ IdleObj /\ syn = None /\ win = None

\* No station average is made.
IdleAv == sta = None /\ avg = None

\* No object of the transfer-function chain is built.
IdleTF ==
    /\ noise = None
    /\ tfn = None
    /\ ev = None
    /\ exc = ""
    /\ op = ""
    /\ computed = {}
    /\ args = None

Components == {2, 3, 4}
\* tol as the methods default it: QC_daily_spectra(tol=1.5), QC_sta_spectra(tol=2.0).
DayTol == <<3, 2>>
StaTol == <<2, 1>>

NoEval == [G |-> {}, penalty |-> <<>>, fsig |-> {}]

\* The identities of the windows in the current good-set.
GoodIds == {cols[indwin[p]] : p \in 1..Len(indwin)}

Zeros(n) == [p \in 1..n |-> 0]
AllTrue(n) == [p \in 1..n |-> TRUE]

\* ------------------------------------------------------------- the QC loop
\* The leave-one-out norm of a window is low (0) or high (1): a window whose
\* absence leaves little scatter, or much.
NormLevels == {0, 1}

\* normvar[ii] = norm(np.std(dsl[:, ind], axis=1), ord=2) with ind = indwin without
\* position ii: the values one channel can give a good-set of n windows.  The
\* standard deviation over a single remaining column is 0.
NormVectors(n) ==
    IF n = 2 THEN {Zeros(2)} ELSE [1..n -> NormLevels]

\* Leaving one window out of a good-set of one leaves no column: np.std gives
\* NaN and scipy.linalg.norm (check_finite) raises ValueError.
NormRaises(n) == n = 1

\* Twice ubernorm[ind_u, :] = np.median(normvar) - normvar.
UbernormRow(normvar) ==
    IF normvar = <<>> THEN <<>>
    ELSE LET med2 == Median2(normvar)
         IN  [p \in 1..Len(normvar) |-> med2 - 2 * normvar[p]]

\* The rows one channel can add to ubernorm, by size of the good-set.
UbernormRows == [n \in 0..(MaxWin + 1) |-> {UbernormRow(nv) : nv \in NormVectors(n)}]

AddRow(acc, row) == [p \in 1..Len(acc) |-> acc[p] + row[p]]

\* kill = penalty > tol*np.std(penalty)
DayKill(p, t) == ExceedsStd(p, t)

StaKill(p, t) == ExceedsStd(p, t)

\* Mutant: the mask is built anew from the windows flagged in this pass.
DayRemove_fresh(good, ind, kill) ==
    [i \in 1..Len(good) |-> ~(\E p \in 1..Len(ind) : kill[p] /\ ind[p] = i)]

\* Mutant: goodwins[kill==True] = False, the flags taken as positions in the mask.
DayRemove_positional(good, ind, kill) ==
    [i \in 1..Len(good) |-> IF i <= Len(kill) /\ kill[i] THEN FALSE ELSE good[i]]

\* goodwins[indwin[kill==True]] = False
DayRemove(good, ind, kill) ==
    [i \in 1..Len(good) |->
        IF \E p \in 1..Len(ind) : kill[p] /\ ind[p] = i THEN FALSE ELSE good[i]]

\* gooddays[indwin[kill==True]] = False
StaRemove(good, ind, kill) ==
    [i \in 1..Len(good) |->
        IF \E p \in 1..Len(ind) : kill[p] /\ ind[p] = i THEN FALSE ELSE good[i]]

\* utils.ftest(penalty, 1, trypenalty, 1) < alpha: the answers the F-test can
\* give.  With every window flagged the residual set is empty and the test is
\* degenerate: it does not come out significant.
FtestBelowAlpha(p, trypenalty) ==
    IF trypenalty = <<>> THEN {FALSE} ELSE BOOLEAN

\* The same spectra scored again give the same penalty and the same F-test.
Rescored == lastEval.G = GoodIds /\ lastEval.G # {}

\* An F-test free to answer anything, the degenerate case included.
FtestAny(p, trypenalty) == BOOLEAN

FtestAnswers(anyF, p, trypenalty) ==
    IF Rescored /\ lastEval.fsig # {} THEN lastEval.fsig
    ELSE IF anyF THEN FtestAny(p, trypenalty)
    ELSE FtestBelowAlpha(p, trypenalty)

\* Mutant: the loop goes on after a significant F-test without removing.
DayDecide_keeps(good, ind, p, t, fsig) ==
    LET kill == DayKill(p, t)
    IN  IF CountTrue(kill) = 0
        THEN [goodwins |-> good, indwin |-> ind, moveon |-> TRUE]
        ELSE [goodwins |-> good, indwin |-> ind, moveon |-> ~fsig]

\* Mutant: the flagged windows are removed before the F-test is asked.
DayDecide_early(good, ind, p, t, fsig) ==
    LET kill == DayKill(p, t)
        left == DayRemove(good, ind, kill)
    IN  IF CountTrue(kill) = 0
        THEN [goodwins |-> good, indwin |-> ind, moveon |-> TRUE]
        ELSE [goodwins |-> left, indwin |-> Argwhere(left), moveon |-> ~fsig]

\* Mutant: the flagged windows are removed whatever the F-test answers.
DayDecide_always(good, ind, p, t, fsig) ==
    LET kill == DayKill(p, t)
        left == DayRemove(good, ind, kill)
    IN  IF CountTrue(kill) = 0
        THEN [goodwins |-> good, indwin |-> ind, moveon |-> TRUE]
        ELSE [goodwins |-> left, indwin |-> Argwhere(left), moveon |-> FALSE]

\* Mutant: with every window flagged nothing is left to test against and the
\* flagged windows are removed.
DayDecide_emptied(good, ind, p, t, fsig) ==
    LET kill == DayKill(p, t)
        left == DayRemove(good, ind, kill)
    IN  IF CountTrue(kill) = 0
        THEN [goodwins |-> good, indwin |-> ind, moveon |-> TRUE]
        ELSE IF fsig \/ CountTrue(kill) = Len(kill)
             THEN [goodwins |-> left, indwin |-> Argwhere(left), moveon |-> FALSE]
             ELSE [goodwins |-> good, indwin |-> ind, moveon |-> TRUE]

\* One pass's decision, from kill to the end of the loop body: no window
\* flagged, or flagged windows removed when the F-test is significant (fsig),
\* or the loop left with the flagged windows kept.
DayDecide(good, ind, p, t, fsig) ==
    LET kill == DayKill(p, t)
    IN  IF CountTrue(kill) = 0
        THEN [goodwins |-> good, indwin |-> ind, moveon |-> TRUE]
        ELSE IF fsig
             THEN LET left == DayRemove(good, ind, kill)
                  IN  [goodwins |-> left, indwin |-> Argwhere(left), moveon |-> FALSE]
             ELSE [goodwins |-> good, indwin |-> ind, moveon |-> TRUE]

StaDecide(good, ind, p, t, fsig) ==
    LET kill == StaKill(p, t)
    IN  IF CountTrue(kill) = 0
        THEN [goodwins |-> good, indwin |-> ind, moveon |-> TRUE]
        ELSE IF fsig
             THEN LET left == StaRemove(good, ind, kill)
                  IN  [goodwins |-> left, indwin |-> Argwhere(left), moveon |-> FALSE]
             ELSE [goodwins |-> good, indwin |-> ind, moveon |-> TRUE]

\* moveon = False; goodwins = np.repeat([True], n); indwin = np.argwhere(goodwins==True)
EnterLoop(ids, t) ==
    /\ cols' = ids
    /\ tol' = t
    /\ goodwins' = AllTrue(Len(ids))
    /\ indwin' = Argwhere(AllTrue(Len(ids)))
    /\ ind_u' = 0
    /\ penalty' = Zeros(Len(ids))
    /\ iter' = 1
    /\ ftest_sig' = None
    /\ removed' = <<>>
    /\ self_good' = None
    /\ pc' = "norm"
    /\ UNCHANGED <<tfVars, avVars, unitVars, args>>

\* One channel of `for ind_u, dsl in enumerate(dsls)`, and after the last one
\* penalty = np.sum(ubernorm, axis=0).
ScoreChannel ==
    /\ pc = "norm"
    /\ IF NormRaises(Len(indwin))
       THEN /\ pc' = "raised"
            /\ UNCHANGED <<ind_u, penalty>>
       ELSE IF Rescored
       THEN /\ penalty' = lastEval.penalty
            /\ ind_u' = ncomp
            /\ pc' = "decide"
       ELSE \E row \in UbernormRows[Len(indwin)] :
            /\ penalty' = AddRow(penalty, row)
            /\ ind_u' = ind_u + 1
            /\ pc' = IF ind_u + 1 = ncomp THEN "decide" ELSE "norm"
    /\ UNCHANGED <<stage, ncomp, tol, cols, goodwins, indwin, self_good, iter,
                   run, ftest_sig, removed, lastEval>>
    /\ UNCHANGED <<tfVars, avVars, unitVars, args>>

\* kill and the rest of the pass, by the method that runs.
KillOf(st, p, t) == IF st = "daily" THEN DayKill(p, t) ELSE StaKill(p, t)

DecideOf(st, good, ind, p, t, fsig) ==
    IF st = "daily" THEN DayDecide(good, ind, p, t, fsig)
    ELSE StaDecide(good, ind, p, t, fsig)

\* From kill = ... to the end of the pass of the method st, the F-test
\* answering as utils.ftest can, or anything when anyF.
DecidePass(st, anyF) ==
    /\ stage = st
    /\ pc = "decide"
    /\ \E fsig \in FtestAnswers(anyF, penalty, Unflagged(penalty, KillOf(st, penalty, tol))) :
         LET d == DecideOf(st, goodwins, indwin, penalty, tol, fsig)
             flagged == \E p \in 1..Len(penalty) : KillOf(st, penalty, tol)[p]
         IN  /\ lastEval' = IF d.moveon
                             THEN [G |-> GoodIds, penalty |-> penalty,
                                   fsig |-> IF flagged THEN {fsig} ELSE {}]
                             ELSE NoEval
             /\ goodwins' = d.goodwins
             /\ indwin' = d.indwin
             /\ ftest_sig' = IF flagged THEN Some(fsig) ELSE None
             /\ removed' = IF d.goodwins = goodwins THEN removed
                            ELSE Append(removed,
                                   {cols[i] : i \in {j \in 1..Len(goodwins) :
                                                        goodwins[j] /\ ~d.goodwins[j]}})
             /\ IF d.moveon
                THEN /\ self_good' = Some(d.goodwins)
                     /\ pc' = "done"
                     /\ UNCHANGED <<ind_u, penalty, iter>>
                ELSE /\ iter <= MaxWin + 1
                     /\ pc' = "norm"
                     /\ ind_u' = 0
                     /\ penalty' = Zeros(Len(d.indwin))
                     /\ iter' = iter + 1
                     /\ UNCHANGED self_good
    /\ UNCHANGED <<stage, ncomp, tol, cols, run>>
    /\ UNCHANGED <<tfVars, avVars, unitVars, args>>

\* DayNoise.QC_daily_spectra is called: len(t) windows come out of the spectrogram.
QC_daily_spectra ==
    /\ stage = "daily" /\ pc = "new"
    /\ \E n \in 1..MaxWin : EnterLoop([i \in 1..n |-> i], DayTol)
    /\ UNCHANGED <<stage, ncomp, run, lastEval>>

QC_daily_norm == stage = "daily" /\ ScoreChannel

QC_daily_decide == DecidePass("daily", FALSE)

QC_daily_decide_anyF == DecidePass("daily", TRUE)

\* StaNoise.QC_sta_spectra is called: self.cZZ.shape[1] days.
QC_sta_spectra ==
    /\ stage = "sta" /\ pc = "new"
    /\ \E n \in 1..MaxWin : EnterLoop([i \in 1..n |-> i], StaTol)
    /\ UNCHANGED <<stage, ncomp, run, lastEval>>

QC_sta_norm == stage = "sta" /\ ScoreChannel

QC_sta_decide == DecidePass("sta", FALSE)

QC_sta_decide_anyF == DecidePass("sta", TRUE)

\* The method is called again, with the same tol and alpha, on an object that
\* holds only the windows (days) the first run left good, when it left any.
QC_again ==
    /\ pc = "done" /\ run = 1
    /\ CountTrue(self_good[1]) >= 1
    /\ run' = 2
    /\ EnterLoop([p \in 1..CountTrue(self_good[1]) |-> cols[Argwhere(self_good[1])[p]]], tol)
    /\ UNCHANGED <<stage, ncomp, lastEval>>

InitQC ==
    /\ stage \in {"daily", "sta"}
    /\ ncomp \in Components
    /\ pc = "new"
    /\ tol = IF stage = "daily" THEN DayTol ELSE StaTol
    /\ cols = <<>>
    /\ goodwins = <<>>
    /\ indwin = <<>>
    /\ ind_u = 0
    /\ penalty = <<>>
    /\ self_good = None
    /\ iter = 0
    /\ run = 1
    /\ ftest_sig = None
    /\ removed = <<>>
    /\ lastEval = NoEval
    /\ IdleTF
    /\ IdleAv
    /\ IdleUnit

NextQC ==
    \/ QC_daily_spectra
    \/ QC_daily_norm
    \/ QC_daily_decide
    \/ QC_sta_spectra
    \/ QC_sta_norm
    \/ QC_sta_decide
    \/ QC_again

SpecQC == InitQC /\ [][NextQC]_vars

\* The same runs with the F-test unconstrained.
NextQCAnyF ==
    \/ QC_daily_spectra
    \/ QC_daily_norm
    \/ QC_daily_decide_anyF
    \/ QC_sta_spectra
    \/ QC_sta_norm
    \/ QC_sta_decide_anyF
    \/ QC_again

SpecQCAnyF == InitQC /\ [][NextQCAnyF]_vars

\* ------------------------------------------------------------- model tables
\* The six transfer-function models, in the order the tables list them.
ModelNames == <<"ZP", "Z1", "Z2-1", "ZP-21", "ZH", "ZP-H">>
Models == {ModelNames[i] : i \in 1..Len(ModelNames)}

\* A dict of model flags, as its items in insertion order.
Table(zp, z1, z21, zp21, zh, zph) ==
    << <<"ZP", zp>>, <<"Z1", z1>>, <<"Z2-1", z21>>, <<"ZP-21", zp21>>,
       <<"ZH", zh>>, <<"ZP-H", zph>> >>

Keys(items) == {items[i][1] : i \in 1..Len(items)}
\* dict[key] of a dict that holds key
Get(items, key) == LET i == CHOOSE j \in 1..Len(items) : items[j][1] = key IN items[i][2]
Enabled(items) == {items[i][1] : i \in {j \in 1..Len(items) : items[j][2]}}

\* Mutant: three channels enable Z2-1 without Z1.
DayTable_noZ1(nc) ==
    IF nc = 2 THEN Table(TRUE, FALSE, FALSE, FALSE, FALSE, FALSE)
    ELSE IF nc = 3 THEN Table(FALSE, FALSE, TRUE, FALSE, TRUE, FALSE)
    ELSE Table(TRUE, TRUE, TRUE, TRUE, TRUE, TRUE)

\* DayNoise.__init__: self.tf_list by self.ncomp
DayTable(nc) ==
    IF nc = 2 THEN Table(TRUE, FALSE, FALSE, FALSE, FALSE, FALSE)
    ELSE IF nc = 3 THEN Table(FALSE, TRUE, TRUE, FALSE, TRUE, FALSE)
    ELSE Table(TRUE, TRUE, TRUE, TRUE, TRUE, TRUE)

\* StaNoise.__init__: self.tf_list by self.ncomp
StaTable(nc) ==
    IF nc = 2 THEN Table(TRUE, FALSE, FALSE, FALSE, FALSE, FALSE)
    ELSE IF nc = 3 THEN Table(FALSE, TRUE, TRUE, FALSE, FALSE, FALSE)
    ELSE Table(TRUE, TRUE, TRUE, TRUE, FALSE, FALSE)

\* EventStream.__init__: self.ev_list by self.ncomp
EvTable(nc) ==
    IF nc = 2 THEN Table(TRUE, FALSE, FALSE, FALSE, FALSE, FALSE)
    ELSE IF nc = 3 THEN Table(FALSE, TRUE, TRUE, FALSE, TRUE, FALSE)
    ELSE Table(TRUE, TRUE, TRUE, TRUE, TRUE, TRUE)

\* ------------------------------------------------------------- containers
\* The spectra of the Power, Cross and Rotation containers.
PowerFields == {"c11", "c22", "cZZ", "cPP"}
CrossFields == {"c12", "c1Z", "c1P", "c2Z", "c2P", "cZP"}
RotationFields == {"cHH", "cHZ", "cHP"}
Fields == PowerFields \cup CrossFields \cup RotationFields

\* The fields average_daily_spectra fills for ncomp channels, the rotated ones
\* when calc_rotation is set.
Populated(nc, calc_rotation) ==
    {"cZZ"}
    \cup (IF nc = 2 \/ nc = 4 THEN {"cPP", "cZP"} ELSE {})
    \cup (IF nc = 3 \/ nc = 4 THEN {"c11", "c22", "c12", "c1Z", "c2Z"} ELSE {})
    \cup (IF nc = 4 THEN {"c1P", "c2P"} ELSE {})
    \cup (IF calc_rotation /\ nc >= 3 THEN {"cHH", "cHZ", "cHP"} ELSE {})

\* all(value == None for value in container.values()), for what values() gives:
\* None when the container has no such method (Power, Cross have none), else
\* the values, each "None", an "array" of several elements (whose comparison
\* with None has no truth value) or a "scalar" (any value that compares unequal).
RECURSIVE AllValuesNone(_)
AllValuesNone(values) ==
    IF values = <<>> THEN "True"
    ELSE IF Head(values) = "None" THEN AllValuesNone(Tail(values))
    ELSE IF Head(values) = "array" THEN "ValueError"
    ELSE "False"

\* The two checks that open TFNoise.__init__ and StaNoise.__init__: the
\* exception raised, "" when both pass.
ContainerCheck(pvalues, cvalues) ==
    IF pvalues = None THEN "AttributeError"
    ELSE IF AllValuesNone(pvalues[1]) = "ValueError" THEN "ValueError"
    ELSE IF AllValuesNone(pvalues[1]) = "True" THEN "Exception: Container Power is empty"
    ELSE IF cvalues = None THEN "AttributeError"
    ELSE IF AllValuesNone(cvalues[1]) = "ValueError" THEN "ValueError"
    ELSE IF AllValuesNone(cvalues[1]) = "True" THEN "Exception: Container Cross is empty"
    ELSE ""

\* ------------------------------------------------------------- constructors
TraceKinds == {"None", "Other", "Empty", "Data"}

\* Mutant: only trZ, the trace the attributes are read from, is checked.
NotATrace_onlyZ(tr) == tr[3] \notin {"Empty", "Data"}

\* for tr in [tr1, tr2, trZ, trP]: if not isinstance(tr, Trace): raise
NotATrace(tr) == \E i \in 1..4 : tr[i] \notin {"Empty", "Data"}

\* DayNoise.__init__(tr1, tr2, trZ, trP, ...)
DayNoise_init ==
    /\ noise = None /\ tfn = None /\ ev = None
    /\ \E given \in [1..4 -> TraceKinds] :
         LET tr == IF \A i \in 1..4 : given[i] = "None"
                   THEN [i \in 1..4 |-> "Data"] ELSE given
             nc == Cardinality({i \in 1..4 : tr[i] = "Data"})
         IN  /\ args' = Some(given)
             /\ IF NotATrace(tr)
                THEN /\ exc' = "Exception: not a Trace object"
                     /\ UNCHANGED noise
                ELSE /\ exc' = ""
                     /\ noise' = Some([cls |-> "DayNoise", ncomp |-> nc,
                                       tf_list |-> DayTable(nc)])
    /\ op' = "DayNoise"
    /\ UNCHANGED <<tfn, ev, computed, qcVars, avVars, unitVars>>

\* The ncomp argument of StaNoise and EventStream.
NcompArgs == Components \cup {1, 5}

\* The fields the containers given may hold.
PresentGiven == {Populated(nc, rot) : nc \in Components, rot \in BOOLEAN} \cup {Fields}

\* What values() of a container handed to StaNoise or TFNoise may give.
ValuesGiven ==
    {None, Some(<<>>), Some(<<"None", "None">>), Some(<<"None", "scalar">>),
     Some(<<"None", "array">>), Some(<<"scalar", "array">>)}

\* Whether every field of a container is None.  A Power or a Cross of this
\* module (values None: the class defines no method values) has its fields
\* set or not; a mapping is its values.
AllAbsent(values) == \A i \in 1..Len(values) : values[i] = "None"

\* The containers a constructor may be handed.
ContainersGiven ==
    {[values |-> v, empty |-> e] : v \in ValuesGiven, e \in BOOLEAN}
    \ {c \in [values : ValuesGiven, empty : BOOLEAN] :
          c.values # None /\ c.empty # AllAbsent(c.values[1])}

\* The pairs of them that pass the two checks.
Passing ==
    {pair \in ContainersGiven \X ContainersGiven :
       ContainerCheck(pair[1].values, pair[2].values) = ""}

\* What args keeps of a container.
Kind(c) == [cls |-> IF c.values = None THEN "class" ELSE "mapping", empty |-> c.empty]

\* StaNoise.__init__(power, cross, rotation, f, nwins, ncomp, key): the
\* containers give pvalues and cvalues and hold the fields of present.
StaNoise_init ==
    /\ noise = None /\ tfn = None /\ ev = None
    /\ \/ \E power \in ContainersGiven, cross \in ContainersGiven :
            /\ ContainerCheck(power.values, cross.values) # ""
            /\ exc' = ContainerCheck(power.values, cross.values)
            /\ args' = Some([power |-> Kind(power), cross |-> Kind(cross)])
            /\ UNCHANGED noise
       \/ /\ args' \in {Some([power |-> Kind(power), cross |-> Kind(cross)]) :
                           <<power, cross>> \in Passing}
          /\ \E nc \in NcompArgs, present \in PresentGiven :
                IF present # Fields
                THEN /\ exc' = "AttributeError"
                     /\ UNCHANGED noise
                ELSE /\ exc' = ""
                     /\ noise' = Some([cls |-> "StaNoise", ncomp |-> nc,
                                       tf_list |-> StaTable(nc)])
    /\ op' = "StaNoise"
    /\ UNCHANGED <<tfn, ev, computed, qcVars, avVars, unitVars>>

\* ------------------------------------------------------------- spectra
\* The one-sided frequency axis f, in units of 1e-8 Hz.
Freqs == <<0, 10, 20>>

\* Largest numerator of the real factors a = n/2 tried in cZP = a*cPP.
MaxScale == 2

Scales == {Frac(n, 2) : n \in (-MaxScale)..MaxScale}

RealArr(v) == Arr([i \in 1..Len(v) |-> Cx(v[i], 0)])

PPGiven == {RealArr(<<1, 2, 4>>), RealArr(<<2, 2, 2>>)}
ZPGiven(cPP) == {ArrScale(a, cPP) : a \in Scales}
                \cup {<<Cx(1, 1), Cx(0, -1), Cx(2, 1)>>}

\* Averaged spectra over the three bins of Freqs; the fields outside present
\* are None.
Spectra(present, cPP, cZP) ==
    LET all == [c11 |-> RealArr(<<2, 4, 2>>),
                c22 |-> RealArr(<<4, 2, 4>>),
                cZZ |-> RealArr(<<4, 4, 4>>),
                cPP |-> cPP,
                c12 |-> <<Cx(1, 1), Cx(1, 0), Cx(0, 1)>>,
                c1Z |-> <<Cx(1, 0), Cx(1, -1), Cx(0, 1)>>,
                c1P |-> <<Cx(0, 1), Cx(1, 0), Cx(-1, 0)>>,
                c2Z |-> <<Cx(1, -1), Cx(0, 1), Cx(1, 1)>>,
                c2P |-> <<Cx(1, 0), Cx(0, -1), Cx(0, 1)>>,
                cZP |-> cZP,
                cHH |-> RealArr(<<2, 2, 4>>),
                cHZ |-> <<Cx(1, 1), Cx(0, 1), Cx(1, 0)>>,
                cHP |-> <<Cx(0, 1), Cx(1, 0), Cx(0, -1)>>]
    IN  [fld \in Fields |-> IF fld \in present THEN Some(all[fld]) ELSE None]

SpectraGiven ==
    {Spectra(present, cPP, cZP) : present \in PresentGiven,
                                  cPP \in PPGiven, cZP \in UNION {ZPGiven(pp) : pp \in PPGiven}}

\* ------------------------------------------------------------- TFNoise
\* TFNoise.__init__(f, power, cross, rotation, tf_list), the containers giving
\* pvalues and cvalues and holding the spectra sp.
TFNoiseInit(Tables, SpectraSet, Tilts) ==
    /\ tfn = None /\ ev = None
    /\ \/ \E power \in ContainersGiven, cross \in ContainersGiven :
            /\ ContainerCheck(power.values, cross.values) # ""
            /\ exc' = ContainerCheck(power.values, cross.values)
            /\ args' = Some([power |-> Kind(power), cross |-> Kind(cross)])
            /\ UNCHANGED tfn
       \/ /\ args' \in {Some([power |-> Kind(power), cross |-> Kind(cross)]) :
                           <<power, cross>> \in Passing}
          /\ \E sp \in SpectraSet, tf_list \in Tables, tilt \in Tilts :
                tfn' = Some([f |-> Freqs, sp |-> sp,
                             tilt |-> IF sp["cHH"] = None THEN None ELSE Some(tilt),
                             tf_list |-> tf_list, transfunc |-> None])
          /\ exc' = ""
    /\ op' = "TFNoise"
    /\ UNCHANGED <<noise, ev, computed, qcVars, avVars, unitVars>>

\* utils.coherence(Gxy, Gxx, Gyy): the magnitude-squared cross-power over the
\* product of the auto-powers.
Coherence(Gxy, Gxx, Gyy) ==
    Arr([i \in 1..Len(Gxy) |-> CDiv(<<CAbs2(Gxy[i]), Whole(0)>>, CMul(Gxx[i], Gyy[i]))])

\* The spectra each branch of transfer_func reads.
Reads(key) ==
    IF key = "ZP" THEN {"cZP", "cPP"}
    ELSE IF key = "Z1" THEN {"c1Z", "c11"}
    ELSE IF key = "Z2-1" THEN {"c12", "c11", "c22", "c2Z", "c1Z"}
    ELSE IF key = "ZP-21" THEN {"c1Z", "c11", "c12", "c1P", "c22", "cPP", "c2Z", "cZP", "c2P"}
    ELSE IF key = "ZH" THEN {"cHZ", "cHH"}
    ELSE {"cHP", "cHH", "cPP", "cZP", "cHZ"}

TF_ZP_swapped(sp) == "TF_ZP" :> ArrDiv(sp["cPP"][1], sp["cZP"][1])

\* tf_ZP = {'TF_ZP': self.cZP/self.cPP}
TF_ZP(sp) == "TF_ZP" :> ArrDiv(sp["cZP"][1], sp["cPP"][1])

\* tf_Z1 = {'TF_Z1': np.conj(self.c1Z)/self.c11}
TF_Z1(sp) == "TF_Z1" :> ArrDiv(ArrConj(sp["c1Z"][1]), sp["c11"][1])

\* Mutant: TF_21 is taken without the conjugate.
TF_Z2_1_unconj(sp) ==
    LET c11 == sp["c11"][1]
        c22 == sp["c22"][1]
        c12 == sp["c12"][1]
        c1Z == sp["c1Z"][1]
        c2Z == sp["c2Z"][1]
        lc1c2 == ArrDiv(c12, c11)
        coh_12 == Coherence(c12, c11, c22)
        gc2c2_c1 == ArrMul(c22, ArrOneMinus(coh_12))
        gc2cZ_c1 == ArrSub(ArrConj(c2Z), ArrConj(ArrMul(lc1c2, c1Z)))
        lc2cZ_c1 == ArrDiv(gc2cZ_c1, gc2c2_c1)
    IN  "TF_21" :> lc1c2 @@ "TF_Z2-1" :> lc2cZ_c1

\* The branch key == 'Z2-1'
TF_Z2_1(sp) ==
    LET c11 == sp["c11"][1]
        c22 == sp["c22"][1]
        c12 == sp["c12"][1]
        c1Z == sp["c1Z"][1]
        c2Z == sp["c2Z"][1]
        lc1c2 == ArrDiv(ArrConj(c12), c11)
        coh_12 == Coherence(c12, c11, c22)
        gc2c2_c1 == ArrMul(c22, ArrOneMinus(coh_12))
        gc2cZ_c1 == ArrSub(ArrConj(c2Z), ArrConj(ArrMul(lc1c2, c1Z)))
        lc2cZ_c1 == ArrDiv(gc2cZ_c1, gc2c2_c1)
    IN  "TF_21" :> lc1c2 @@ "TF_Z2-1" :> lc2cZ_c1

\* The branch key == 'ZP-21'
TF_ZP_21(sp) ==
    LET c11 == sp["c11"][1]
        c22 == sp["c22"][1]
        cPP == sp["cPP"][1]
        c12 == sp["c12"][1]
        c1Z == sp["c1Z"][1]
        c1P == sp["c1P"][1]
        c2Z == sp["c2Z"][1]
        c2P == sp["c2P"][1]
        cZP == sp["cZP"][1]
        lc1cZ == ArrDiv(ArrConj(c1Z), c11)
        lc1c2 == ArrDiv(ArrConj(c12), c11)
        lc1cP == ArrDiv(ArrConj(c1P), c11)
        coh_12 == Coherence(c12, c11, c22)
        coh_1P == Coherence(c1P, c11, cPP)
        gc2c2_c1 == ArrMul(c22, ArrOneMinus(coh_12))
        gcPcP_c1 == ArrMul(cPP, ArrOneMinus(coh_1P))
        gc2cZ_c1 == ArrSub(ArrConj(c2Z), ArrConj(ArrMul(lc1c2, c1Z)))
        gcPcZ_c1 == ArrSub(cZP, ArrConj(ArrMul(lc1cP, c1Z)))
        gc2cP_c1 == ArrSub(ArrConj(c2P), ArrConj(ArrMul(lc1c2, c1P)))
        lc2cP_c1 == ArrDiv(gc2cP_c1, gc2c2_c1)
        lc2cZ_c1 == ArrDiv(gc2cZ_c1, gc2c2_c1)
        coh_c2cP_c1 == Coherence(gc2cP_c1, gc2c2_c1, gcPcP_c1)
        gcPcP_c1c2 == ArrMul(gcPcP_c1, ArrOneMinus(coh_c2cP_c1))
        gcPcZ_c1c2 == ArrSub(gcPcZ_c1, ArrMul(ArrConj(lc2cP_c1), gc2cZ_c1))
        lcPcZ_c2c1 == ArrDiv(gcPcZ_c1c2, gcPcP_c1c2)
    IN  "TF_Z1" :> lc1cZ @@ "TF_21" :> lc1c2 @@ "TF_P1" :> lc1cP
        @@ "TF_P2-1" :> lc2cP_c1 @@ "TF_Z2-1" :> lc2cZ_c1 @@ "TF_ZP-21" :> lcPcZ_c2c1

\* tf_ZH = {'TF_ZH': np.conj(self.cHZ)/self.cHH}
TF_ZH(sp) == "TF_ZH" :> ArrDiv(ArrConj(sp["cHZ"][1]), sp["cHH"][1])

\* The branch key == 'ZP-H'
TF_ZP_H(sp) ==
    LET cHH == sp["cHH"][1]
        cHZ == sp["cHZ"][1]
        cHP == sp["cHP"][1]
        cPP == sp["cPP"][1]
        cZP == sp["cZP"][1]
        lcHcP == ArrDiv(ArrConj(cHP), cHH)
        coh_HP == Coherence(cHP, cHH, cPP)
        gcPcP_cH == ArrMul(cPP, ArrOneMinus(coh_HP))
        gcPcZ_cH == ArrSub(cZP, ArrConj(ArrMul(lcHcP, cHZ)))
        lcPcZ_cH == ArrDiv(gcPcZ_cH, gcPcP_cH)
    IN  "TF_PH" :> lcHcP @@ "TF_ZP-H" :> lcPcZ_cH

ModelTF(key, sp) ==
    IF key = "ZP" THEN TF_ZP(sp)
    ELSE IF key = "Z1" THEN TF_Z1(sp)
    ELSE IF key = "Z2-1" THEN TF_Z2_1(sp)
    ELSE IF key = "ZP-21" THEN TF_ZP_21(sp)
    ELSE IF key = "ZH" THEN TF_ZH(sp)
    ELSE TF_ZP_H(sp)

\* dict.add(key, value)
DictAdd(d, key, value) == [k \in DOMAIN d \cup {key} |-> IF k = key THEN value ELSE d[k]]

\* {}
EmptyDict == [k \in {} |-> <<>>]

\* The loop of transfer_func as it starts: the dict transfunc empty, no pass
\* completed, nothing raised.
LoopStart == [local |-> EmptyDict, assigned |-> FALSE, exc |-> ""]

\* Mutant: the branch computes its model whatever the flag of the key.
TransferStep_unflagged(key, value, sp, st) ==
    IF key \notin Models
    THEN [st EXCEPT !.exc = "Exception: Incorrect key"]
    ELSE IF \E fld \in Reads(key) : sp[fld] = None
    THEN [st EXCEPT !.exc = "TypeError"]
    ELSE [local |-> DictAdd(st.local, key, ModelTF(key, sp)),
          assigned |-> TRUE, exc |-> ""]

\* Mutant: the else branch is under the flag too, so a switched-off unknown
\* key is passed over.
TransferStep_offignored(key, value, sp, st) ==
    IF key \notin Models /\ value
    THEN [st EXCEPT !.exc = "Exception: Incorrect key"]
    ELSE IF key \notin Models
    THEN [st EXCEPT !.assigned = TRUE]
    ELSE IF value /\ \E fld \in Reads(key) : sp[fld] = None
    THEN [st EXCEPT !.exc = "TypeError"]
    ELSE [local |-> IF value THEN DictAdd(st.local, key, ModelTF(key, sp)) ELSE st.local,
          assigned |-> TRUE, exc |-> ""]

\* One pass of `for key, value in self.tf_list.items()`: an unknown key
\* raises, a model that is switched on is computed (arithmetic on a spectrum
\* that is None raises TypeError) and added to the dict transfunc, and the
\* pass ends on self.transfunc = transfunc.
TransferStep(key, value, sp, st) ==
    IF key \notin Models
    THEN [st EXCEPT !.exc = "Exception: Incorrect key"]
    ELSE IF value /\ \E fld \in Reads(key) : sp[fld] = None
    THEN [st EXCEPT !.exc = "TypeError"]
    ELSE [local |-> IF value THEN DictAdd(st.local, key, ModelTF(key, sp)) ELSE st.local,
          assigned |-> TRUE, exc |-> ""]

\* The loop of transfer_func over the items left; a pass that raises ends it.
RECURSIVE TransferLoop(_, _, _)
TransferLoop(sp, items, st) ==
    IF items = <<>> \/ st.exc # "" THEN st
    ELSE TransferLoop(sp, Tail(items),
                      TransferStep(Head(items)[1], Head(items)[2], sp, st))

\* Mutant: the cross spectra the branches conjugate are conjugated in place.
transfer_func_inplace ==
    /\ tfn # None
    /\ op = "TFNoise" /\ exc = ""
    /\ \E out \in {TransferLoop(tfn[1].sp, tfn[1].tf_list, LoopStart)} :
         /\ tfn' = Some([tfn[1] EXCEPT
                           !.transfunc = IF out.assigned THEN Some(out.local) ELSE @,
                           !.sp = [fld \in Fields |->
                                     IF fld \in CrossFields /\ tfn[1].sp[fld] # None
                                     THEN Some(ArrConj(tfn[1].sp[fld][1]))
                                     ELSE tfn[1].sp[fld]]])
         /\ exc' = out.exc
    /\ op' = "transfer_func"
    /\ UNCHANGED <<noise, ev, computed, qcVars, avVars, unitVars>>
    /\ args' = None

\* TFNoise.transfer_func(): self.transfunc is the dict transfunc once a pass
\* has assigned it, and is not touched before.
transfer_func ==
    /\ tfn # None
    /\ op = "TFNoise" /\ exc = ""
    /\ \E out \in {TransferLoop(tfn[1].sp, tfn[1].tf_list, LoopStart)} :
         /\ tfn' = Some([tfn[1] EXCEPT
                           !.transfunc = IF out.assigned THEN Some(out.local) ELSE @])
         /\ exc' = out.exc
    /\ op' = "transfer_func"
    /\ UNCHANGED <<noise, ev, computed, qcVars, avVars, unitVars>>
    /\ args' = None

\* ------------------------------------------------------------- tf_list given
FlagTables == {Table(zp, z1, z21, zp21, zh, zph) :
                 zp \in BOOLEAN, z1 \in BOOLEAN, z21 \in BOOLEAN,
                 zp21 \in BOOLEAN, zh \in BOOLEAN, zph \in BOOLEAN}

\* A dict with one more key, put in before position pos.
InsertAt(items, pos, item) ==
    SubSeq(items, 1, pos - 1) \o <<item>> \o SubSeq(items, pos, Len(items))

OddTables == {InsertAt(DayTable(nc), pos, <<"Z2", b>>) :
                nc \in Components, pos \in {1, 4, 7}, b \in BOOLEAN}
             \cup {<<>>}

\* The tf_list handed to TFNoise: that of the noise object when one is built.
TablesOffered ==
    IF noise # None THEN {noise[1].tf_list} ELSE FlagTables \cup OddTables

TFNoise_init == TFNoiseInit(TablesOffered, SpectraGiven, {0})

\* No quality control runs.
IdleQC ==
    /\ stage = "daily"
    /\ ncomp = 2
    /\ pc = "new"
    /\ tol = DayTol
    /\ cols = <<>>
    /\ goodwins = <<>>
    /\ indwin = <<>>
    /\ ind_u = 0
    /\ penalty = <<>>
    /\ self_good = None
    /\ iter = 0
    /\ run = 1
    /\ ftest_sig = None
    /\ removed = <<>>
    /\ lastEval = NoEval

InitTF == IdleQC /\ IdleTF /\ IdleAv /\ IdleUnit

NextTF ==
    \/ DayNoise_init
    \/ StaNoise_init
    \/ TFNoise_init
    \/ transfer_func

SpecTF == InitTF /\ [][NextTF]_vars

\* ------------------------------------------------------------- EventStream
\* The event's traces, four samples each, by channel.
Traces == [ft1 |-> <<1, 0, -1, 2>>, ft2 |-> <<0, 2, 1, -1>>,
           ftZ |-> <<2, 1, 0, -1>>, ftP |-> <<1, -1, 2, 0>>]

\* i^k
IPow(k) == <<Cx(1, 0), Cx(0, 1), Cx(-1, 0), Cx(0, -1)>>[(k % 4) + 1]

RECURSIVE CSum(_)
CSum(s) == IF s = <<>> THEN CZero ELSE CAdd(Head(s), CSum(Tail(s)))

\* np.fft.fft(x, n=4) of the first ws samples of a real trace
Fft(x, ws) ==
    Arr([k \in 1..4 |->
           CSum([m \in 1..4 |-> IF m <= ws
                                THEN CMul(Cx(x[m], 0), IPow(3 * (m - 1) * (k - 1)))
                                ELSE CZero])])

\* np.real(np.fft.ifft(X)) for the four bins of X
RealIfft(X) ==
    Arr([m \in 1..4 |->
           QDiv(Re(CSum([k \in 1..4 |-> CMul(X[k], IPow((m - 1) * (k - 1)))])),
                Whole(4))])

\* utils.calculate_windowed_fft(tr, ws, hann=False) for each channel the
\* event has by its ncomp: the spectrum of the window, None for the others.
EventFt(nc, ws) ==
    [ch \in {"ft1", "ft2", "ftZ", "ftP"} |->
       IF \/ ch = "ftZ"
          \/ ch = "ftP" /\ (nc = 2 \/ nc = 4)
          \/ ch \in {"ft1", "ft2"} /\ (nc = 3 \/ nc = 4)
       THEN Some(Fft(Traces[ch], ws)) ELSE None]

\* The frequency axes an event's window may have: that of Freqs, one within
\* the tolerance of np.allclose, one of another sampling rate, one of another
\* length.
EventFreqs == {Freqs, <<0, 10, 21>>, <<0, 20, 40>>, <<0, 5, 10, 15, 20>>}

\* ws = int(self.window/self.dt), for the windows whose spectrum has four bins.
WindowSamples == {3, 4}

\* EventStream.__init__(sta, sth, stp, tstamp, lat, lon, time, window,
\* sampling_rate, ncomp)
EventStream_init ==
    /\ ev = None
    /\ \E nc \in NcompArgs, f \in EventFreqs, ws \in WindowSamples :
         ev' = Some([ncomp |-> nc, ev_list |-> EvTable(nc), f |-> f,
                     ft |-> EventFt(nc, ws), ws |-> ws, correct |-> None])
    /\ exc' = ""
    /\ op' = "EventStream"
    /\ UNCHANGED <<noise, tfn, computed, qcVars, avVars, unitVars>>
    /\ args' = None

\* np.allclose(a, b): "ValueError" for shapes that do not broadcast, else
\* whether |a - b| <= atol + rtol*|b| at every bin, with atol = 1e-8 (one unit
\* of Freqs) and rtol = 1e-5.
AllClose(a, b) ==
    IF Len(a) # Len(b) THEN "ValueError"
    ELSE IF \A i \in 1..Len(a) : 100000 * Abs(a[i] - b[i]) <= 100000 + Abs(b[i])
    THEN "True" ELSE "False"

Reverse(a) == [i \in 1..Len(a) |-> a[Len(a) + 1 - i]]

\* How many items a[1:stop] takes of an array of L items.
SliceFrom1(L, stop) ==
    LET end == IF stop < 0 THEN (IF L + stop < 0 THEN 0 ELSE L + stop)
               ELSE IF stop > L THEN L ELSE stop
    IN  IF end > 1 THEN end - 1 ELSE 0

\* Mutant: the reversed array is not conjugated.
Hermitian_mirror(TF, n) ==
    Arr(TF \o [j \in 1..SliceFrom1(Len(TF), n - 1) |-> Reverse(TF)[j + 1]])

\* np.hstack((TF, np.conj(TF[::-1][1:n-1])))
Hermitian(TF, n) ==
    Arr(TF \o [j \in 1..SliceFrom1(Len(TF), n - 1) |-> CConj(Reverse(TF)[j + 1])])

\* utils.rotate_dir(ft1, ft2, tilt) for a tilt of 0 or 90 degrees: the
\* horizontal along the azimuth, cos(tilt)*ft1 + sin(tilt)*ft2.
RotateDir(ft1, ft2, tilt) == IF tilt = 0 THEN ft1 ELSE ft2

\* What each branch of correct_data looks up in transfunc, <<model, coefficient>>.
Lookups(key) ==
    IF key = "ZP" THEN {<<"ZP", "TF_ZP">>}
    ELSE IF key = "Z1" THEN {<<"Z1", "TF_Z1">>}
    ELSE IF key = "Z2-1" THEN {<<"Z1", "TF_Z1">>, <<"Z2-1", "TF_21">>, <<"Z2-1", "TF_Z2-1">>}
    ELSE IF key = "ZP-21"
    THEN {<<"ZP-21", c>> : c \in {"TF_Z1", "TF_21", "TF_Z2-1", "TF_P1", "TF_P2-1", "TF_ZP-21"}}
    ELSE IF key = "ZH" THEN {<<"ZH", "TF_ZH">>}
    ELSE {<<"ZH", "TF_ZH">>, <<"ZP-H", "TF_PH">>, <<"ZP-H", "TF_ZP-H">>}

\* The spectra of the event each branch of correct_data computes with.
Uses(key) ==
    IF key = "ZP" THEN {"ftZ", "ftP"}
    ELSE IF key = "Z1" THEN {"ftZ", "ft1"}
    ELSE IF key = "Z2-1" THEN {"ftZ", "ft1", "ft2"}
    ELSE IF key = "ZP-21" THEN {"ftZ", "ft1", "ft2", "ftP"}
    ELSE IF key = "ZH" THEN {"ftZ", "ft1", "ft2"}
    ELSE {"ftZ", "ft1", "ft2", "ftP"}

\* Mutant: the branch of ZP adds the predicted noise.
Corrspec_added(key, ft, transfunc, tilt, n) ==
    Arr([k \in 1..Len(ft["ftZ"][1]) |->
           CAdd(ft["ftZ"][1][k],
                CMul(Hermitian(transfunc["ZP"]["TF_ZP"], n)[k], ft["ftP"][1][k]))])

\* corrspec of the branch of key, from the event's spectra ft, the transfer
\* functions transfunc, the tilt and n = len(f).
Corrspec(key, ft, transfunc, tilt, n) ==
    LET ft1 == ft["ft1"][1]
        ft2 == ft["ft2"][1]
        ftZ == ft["ftZ"][1]
        ftP == ft["ftP"][1]
        F(model, coef) == Hermitian(transfunc[model][coef], n)
        ftH == RotateDir(ft1, ft2, tilt[1])
    IN  IF key = "ZP" THEN ArrSub(ftZ, ArrMul(F("ZP", "TF_ZP"), ftP))
        ELSE IF key = "Z1" THEN ArrSub(ftZ, ArrMul(F("Z1", "TF_Z1"), ft1))
        ELSE IF key = "Z2-1"
        THEN ArrSub(ArrSub(ftZ, ArrMul(F("Z1", "TF_Z1"), ft1)),
                    ArrMul(ArrSub(ft2, ArrMul(ft1, F("Z2-1", "TF_21"))),
                           F("Z2-1", "TF_Z2-1")))
        ELSE IF key = "ZP-21"
        THEN ArrSub(ArrSub(ArrSub(ftZ, ArrMul(F("ZP-21", "TF_Z1"), ft1)),
                           ArrMul(ArrSub(ft2, ArrMul(ft1, F("ZP-21", "TF_21"))),
                                  F("ZP-21", "TF_Z2-1"))),
                    ArrMul(ArrSub(ArrSub(ftP, ArrMul(ft1, F("ZP-21", "TF_P1"))),
                                  ArrMul(ArrSub(ft2, ArrMul(ft1, F("ZP-21", "TF_21"))),
                                         F("ZP-21", "TF_P2-1"))),
                           F("ZP-21", "TF_ZP-21")))
        ELSE IF key = "ZH" THEN ArrSub(ftZ, ArrMul(F("ZH", "TF_ZH"), ftH))
        ELSE ArrSub(ArrSub(ftZ, ArrMul(F("ZH", "TF_ZH"), ftH)),
                    ArrMul(ArrSub(ftP, ArrMul(ftH, F("ZP-H", "TF_PH"))),
                           F("ZP-H", "TF_ZP-H")))

\* The exception the branch of key raises, "" when it computes its trace:
\* the rotation of the horizontals comes first in the branches that rotate,
\* then the lookups in transfunc, then the arithmetic on the event's spectra.
BranchExc(key, ft, transfunc, tilt) ==
    IF key \in {"ZH", "ZP-H"} /\ (ft["ft1"] = None \/ ft["ft2"] = None \/ tilt = None)
    THEN "TypeError"
    ELSE IF \E l \in Lookups(key) : l[1] \notin DOMAIN transfunc
    THEN "KeyError"
    ELSE IF \E ch \in Uses(key) : ft[ch] = None
    THEN "TypeError"
    ELSE ""

\* Mutant: every branch adds its trace under 'ZP', as the first one does.
CorrectStep_keyZP(key, value, e, t, st) ==
    IF key \in Models /\ Get(e.ev_list, key) /\ value
    THEN IF BranchExc(key, e.ft, t.transfunc[1], t.tilt) # ""
         THEN [st EXCEPT !.exc = BranchExc(key, e.ft, t.transfunc[1], t.tilt)]
         ELSE [correct |-> DictAdd(st.correct, "ZP",
                             SubSeq(RealIfft(Corrspec(key, e.ft, t.transfunc[1],
                                                      t.tilt, Len(e.f))), 1, e.ws)),
               exc |-> ""]
    ELSE st

\* One pass of `for key, value in tf_list.items()` in correct_data: the model
\* of a key that self.ev_list and tf_list both enable is applied and its
\* corrected trace added to the dict correct; any other key is passed over.
CorrectStep(key, value, e, t, st) ==
    IF key \in Models /\ Get(e.ev_list, key) /\ value
    THEN IF BranchExc(key, e.ft, t.transfunc[1], t.tilt) # ""
         THEN [st EXCEPT !.exc = BranchExc(key, e.ft, t.transfunc[1], t.tilt)]
         ELSE [correct |-> DictAdd(st.correct, key,
                             SubSeq(RealIfft(Corrspec(key, e.ft, t.transfunc[1],
                                                      t.tilt, Len(e.f))), 1, e.ws)),
               exc |-> ""]
    ELSE st

\* The loop of correct_data over the items left; a pass that raises ends it.
RECURSIVE CorrectLoop(_, _, _, _)
CorrectLoop(items, e, t, st) ==
    IF items = <<>> \/ st.exc # "" THEN st
    ELSE CorrectLoop(Tail(items), e, t,
                     CorrectStep(Head(items)[1], Head(items)[2], e, t, st))

\* After the loop: self.correct = correct when nothing was raised.
Corrected(e, st) ==
    [correct |-> IF st.exc = "" THEN Some(st.correct) ELSE e.correct,
     exc |-> st.exc, computed |-> DOMAIN st.correct]

\* Mutant: the dict of corrections is stored before the frequency axes are compared.
CorrectData_early(e, t) ==
    IF t.transfunc = None
    THEN [correct |-> e.correct, exc |-> "AttributeError", computed |-> {}]
    ELSE IF AllClose(e.f, t.f) = "ValueError"
    THEN [correct |-> Some(EmptyDict), exc |-> "ValueError", computed |-> {}]
    ELSE IF AllClose(e.f, t.f) = "False"
    THEN [correct |-> Some(EmptyDict), exc |-> "Exception: Frequency axes are different", computed |-> {}]
    ELSE Corrected(e, CorrectLoop(t.tf_list, e, t, [correct |-> EmptyDict, exc |-> ""]))

\* EventStream.correct_data(tfnoise) on the event e and the TFNoise t: the
\* attribute correct afterwards, the exception raised and the models whose
\* trace was computed. self.correct is assigned once, after the loop.
CorrectData(e, t) ==
    IF t.transfunc = None
    THEN [correct |-> e.correct, exc |-> "AttributeError", computed |-> {}]
    ELSE IF AllClose(e.f, t.f) = "ValueError"
    THEN [correct |-> e.correct, exc |-> "ValueError", computed |-> {}]
    ELSE IF AllClose(e.f, t.f) = "False"
    THEN [correct |-> e.correct, exc |-> "Exception: Frequency axes are different", computed |-> {}]
    ELSE Corrected(e, CorrectLoop(t.tf_list, e, t, [correct |-> EmptyDict, exc |-> ""]))

correct_data ==
    /\ ev # None /\ tfn # None
    /\ \E out \in {CorrectData(ev[1], tfn[1])} :
         /\ ev' = Some([ev[1] EXCEPT !.correct = out.correct])
         /\ exc' = out.exc
         /\ computed' = out.computed
    /\ op' = "correct_data"
    /\ UNCHANGED <<noise, tfn, qcVars, avVars, unitVars>>
    /\ args' = None

\* TFNoise.__init__ once more, after a correction: the same containers and
\* tf_list, and the frequency axis f of the spectra now given.
TFNoise_again ==
    /\ ev # None /\ tfn # None
    /\ op = "correct_data" /\ exc = ""
    /\ \E f \in {Freqs, <<0, 20, 40>>} :
         tfn' = Some([tfn[1] EXCEPT !.f = f, !.transfunc = None])
    /\ exc' = ""
    /\ op' = "TFNoise"
    /\ UNCHANGED <<noise, ev, computed, qcVars, avVars, unitVars>>
    /\ args' = Some([power |-> [cls |-> "mapping", empty |-> FALSE],
                     cross |-> [cls |-> "mapping", empty |-> FALSE]])

\* ------------------------------------------------------------- events corrected
\* The tf_list handed to TFNoise where events are corrected: that of the
\* noise object, or a table that enables Z2-1 without Z1 or ZP-H without ZH.
TablesCorrected ==
    IF noise # None THEN {noise[1].tf_list}
    ELSE {Table(FALSE, FALSE, TRUE, FALSE, FALSE, FALSE),
          Table(TRUE, TRUE, TRUE, TRUE, FALSE, TRUE),
          InsertAt(DayTable(4), 4, <<"Z2", TRUE>>)}

SpectraCorrected ==
    {Spectra(present, RealArr(<<1, 2, 4>>), <<Cx(1, 1), Cx(0, -1), Cx(2, 1)>>) :
       present \in PresentGiven}

TFNoise_init_corrected == TFNoiseInit(TablesCorrected, SpectraCorrected, {0, 90})

InitEv == IdleQC /\ IdleTF /\ IdleAv /\ IdleUnit

NextEv ==
    \/ DayNoise_init
    \/ StaNoise_init
    \/ TFNoise_init_corrected
    \/ transfer_func
    \/ EventStream_init
    \/ correct_data
    \/ TFNoise_again

SpecEv == InitEv /\ [][NextEv]_vars

\* ------------------------------------------------------------- station average
\* Most days a StaNoise holds, and most good windows a day brings.
MaxDays == 3
MaxNwins == 2

\* The daily spectra come in two levels, quiet and noisy days taking turns.
DayLevels == {0, 1}
LevelsGiven(D) == {[d \in 1..D |-> (d + shift) % 2] : shift \in DayLevels}

\* Position of a field among the spectra, to tell them apart.
FieldNo(fld) ==
    CHOOSE k \in 1..13 :
      <<"c11", "c22", "cZZ", "cPP", "c12", "c1Z", "c1P", "c2Z", "c2P", "cZP",
        "cHH", "cHZ", "cHP">>[k] = fld

\* Column d of self.<fld>: the spectrum of one day, two bins, real for the
\* auto-spectra.
DaySpectrum(fld, lev) ==
    Arr([i \in 1..2 |->
           Cx(FieldNo(fld) + lev * i,
              IF fld \in PowerFields \cup {"cHH"} THEN 0 ELSE lev * 2 - i)])

\* The spectra average_sta_spectra fills for ncomp channels.
StaPopulated(nc) ==
    {"cZZ"}
    \cup (IF nc = 2 \/ nc = 4 THEN {"cPP", "cZP"} ELSE {})
    \cup (IF nc = 3 \/ nc = 4 THEN {"c11", "c22", "c12", "c1Z", "c2Z", "cHH", "cHZ"} ELSE {})
    \cup (IF nc = 4 THEN {"c1P", "c2P", "cHP"} ELSE {})

\* Mutant: np.mean(self.<fld>[:, self.gooddays], axis=1), the days unweighted.
WeightedDays_plain(fld, s, good) ==
    LET D == Len(s.nwins)
    IN  Arr([i \in 1..2 |->
               CDiv(CSum([d \in 1..D |->
                            IF good[d] THEN DaySpectrum(fld, s.level[d])[i] ELSE CZero]),
                    Cx(CountTrue(good), 0))])

\* np.sum(self.<fld>[:, gooddays]*self.nwins[gooddays], axis=1)
\*     / np.sum(self.nwins[gooddays])
WeightedDays(fld, s, good) ==
    LET D == Len(s.nwins)
        total == SumSeq([d \in 1..D |-> IF good[d] THEN s.nwins[d] ELSE 0])
    IN  Arr([i \in 1..2 |->
               CDiv(CSum([d \in 1..D |->
                            IF good[d]
                            THEN CMul(DaySpectrum(fld, s.level[d])[i], Cx(s.nwins[d], 0))
                            ELSE CZero]),
                    Cx(total, 0))])

\* StaNoise.average_sta_spectra(): self.power, self.cross and self.rotation
\* as one record of their spectra; without self.gooddays the first line raises.
average_sta_spectra ==
    /\ sta # None /\ op = ""
    /\ IF sta[1].gooddays = None
       THEN /\ exc' = "AttributeError"
            /\ UNCHANGED avg
       ELSE /\ exc' = ""
            /\ avg' = Some([fld \in Fields |->
                              IF fld \in StaPopulated(sta[1].ncomp)
                              THEN Some(WeightedDays(fld, sta[1], sta[1].gooddays[1]))
                              ELSE None])
    /\ op' = "average_sta_spectra"
    /\ UNCHANGED <<noise, tfn, ev, computed, sta, qcVars, unitVars, args>>

\* The masks QC_sta_spectra stores for D days: no run ends on fewer than two
\* good days.
GoodDaysGiven(D) == {m \in [1..D -> BOOLEAN] : CountTrue(m) >= 2}

\* A StaNoise of some days with their window counts, before QC_sta_spectra
\* (gooddays unset) or after it.
InitSta ==
    /\ IdleQC /\ IdleTF /\ IdleUnit
    /\ avg = None
    /\ \E D \in 1..MaxDays, nc \in NcompArgs :
       \E nwins \in [1..D -> 1..MaxNwins], level \in LevelsGiven(D),
          gooddays \in {None} \cup {Some(m) : m \in GoodDaysGiven(D)} :
         sta = Some([ncomp |-> nc, nwins |-> nwins, level |-> level,
                     gooddays |-> gooddays])

NextSta == average_sta_spectra

SpecSta == InitSta /\ [][NextSta]_vars

\* ------------------------------------------------------------- the full spectrum
\* Most bins of a one-sided array.
MaxBins == 4

\* The values its bins take.
BinValues == {Cx(1, 0), Cx(0, 1), Cx(2, -1)}

\* fTF = np.hstack((TF, np.conj(TF[::-1][1:len(f)-1]))) as correct_data
\* builds it for each coefficient.
Hermitian_apply ==
    /\ herm # None /\ herm.full = None
    /\ herm' = [herm EXCEPT !.full = Some(Hermitian(herm.TF, herm.n))]
    /\ UNCHANGED <<qcVars, tfVars, avVars, obj, pickled, syn, win, args>>

\* A one-sided array TF over a frequency axis of n bins.
InitHerm ==
    /\ IdleQC /\ IdleTF /\ IdleAv /\ IdleObj /\ syn = None /\ win = None
    /\ \E n \in 1..MaxBins : \E TF \in [1..n -> BinValues] :
         herm = [TF |-> TF, n |-> n, full |-> None]

NextHerm == Hermitian_apply

SpecHerm == InitHerm /\ [][NextHerm]_vars

\* ------------------------------------------------------------- attributes
\* What __init__ assigns.
DayNoiseAttrs ==
    {"tr1", "tr2", "trZ", "trP", "window", "overlap", "key", "dt", "npts", "fs",
     "year", "julday", "ncomp", "tf_list"}

StaNoiseAttrs == Fields \cup {"tilt", "f", "nwins", "key", "ncomp", "tf_list"}

TFNoiseAttrs == Fields \cup {"f", "tilt", "tf_list"}

\* The traces a method reads for ncomp channels.
ChannelTraces(nc) ==
    {"trZ"}
    \cup (IF nc = 2 \/ nc = 4 THEN {"trP"} ELSE {})
    \cup (IF nc = 3 \/ nc = 4 THEN {"tr1", "tr2"} ELSE {})

\* The power spectra a method reads for ncomp channels.
ChannelPowers(nc) ==
    {"cZZ"}
    \cup (IF nc = 2 \/ nc = 4 THEN {"cPP"} ELSE {})
    \cup (IF nc = 3 \/ nc = 4 THEN {"c11", "c22"} ELSE {})

\* What utils.calculate_tilt returns of cHH, cHZ, cHP: the cross spectrum
\* with the pressure where there is a pressure channel.
TiltFields(nc) == {"cHH", "cHZ"} \cup (IF nc = 4 THEN {"cHP"} ELSE {})

\* A method as the steps it takes on self: it reads attributes, assigns
\* them, deletes them, raises, stores a Rotation with the fields given,
\* pickles self.
Do(do, on) == [do |-> do, on |-> on]

\* DayNoise.QC_daily_spectra: without 2, 3 or 4 channels the final else
\* subscripts sl_psd1, which is None.
QC_daily_steps(nc) ==
    <<Do("read", {"window", "dt", "overlap", "fs", "ncomp"} \cup ChannelTraces(nc))>>
    \o (IF nc \in Components THEN <<>> ELSE <<Do("raise", {"TypeError"})>>)
    \o <<Do("write", {"goodwins"})>>

\* Mutant: the tilt is estimated whenever calc_rotation is set.
RotationStored_anyncomp(nc, calc_rotation) ==
    IF calc_rotation THEN TiltFields(nc) ELSE {}

\* if calc_rotation and self.ncomp>=3: ... Rotation(cHH, cHZ, cHP, ...)
\* else: Rotation()
RotationStored(nc, calc_rotation) ==
    IF calc_rotation /\ nc >= 3 THEN TiltFields(nc) ELSE {}

\* DayNoise.average_daily_spectra
average_daily_steps(nc, calc_rotation) ==
    <<Do("read", {"window", "dt", "overlap", "ncomp"} \cup ChannelTraces(nc)),
      Do("write", {"f"}),
      Do("read", {"goodwins"}),
      Do("write", {"power", "cross"}),
      Do("rotation", RotationStored(nc, calc_rotation))>>

\* DayNoise.save
DayNoise_save_steps ==
    <<Do("del", {"tr1"}), Do("del", {"tr2"}), Do("del", {"trZ"}), Do("del", {"trP"}),
      Do("dump", {})>>

\* StaNoise.QC_sta_spectra
QC_sta_steps(nc) ==
    <<Do("read", {"f", "ncomp"} \cup ChannelPowers(nc)),
      Do("write", {"gooddays"})>>

\* StaNoise.average_sta_spectra
average_sta_steps(nc) ==
    <<Do("read", {"gooddays", "nwins", "ncomp"} \cup StaPopulated(nc)),
      Do("write", {"power", "cross"}),
      Do("rotation", StaPopulated(nc) \cap RotationFields)>>

\* StaNoise.save
StaNoise_save_steps ==
    <<Do("del", {"c11"}), Do("del", {"c22"}), Do("del", {"cZZ"}), Do("del", {"cPP"}),
      Do("del", {"c12"}), Do("del", {"c1Z"}), Do("del", {"c1P"}), Do("del", {"c2Z"}),
      Do("del", {"c2P"}), Do("del", {"cZP"}), Do("dump", {})>>

\* TFNoise.transfer_func over the table DayNoise builds for ncomp channels.
transfer_func_steps(nc) ==
    <<Do("read", {"tf_list"}),
      Do("read", UNION {Reads(key) : key \in Enabled(DayTable(nc))}),
      Do("write", {"transfunc"})>>

\* TFNoise.save
TFNoise_save_steps ==
    <<Do("del", {"c11"}), Do("del", {"c22"}), Do("del", {"cZZ"}), Do("del", {"cPP"}),
      Do("del", {"cHH"}), Do("del", {"cHZ"}), Do("del", {"cHP"}), Do("del", {"c12"}),
      Do("del", {"c1Z"}), Do("del", {"c1P"}), Do("del", {"c2Z"}), Do("del", {"c2P"}),
      Do("del", {"cZP"}), Do("dump", {})>>

\* One step on self: st is [attrs, rotation, pickled, exc].
StepOn(step, st) ==
    IF step.do = "read"
    THEN IF step.on \subseteq st.attrs THEN st ELSE [st EXCEPT !.exc = "AttributeError"]
    ELSE IF step.do = "write" THEN [st EXCEPT !.attrs = @ \cup step.on]
    ELSE IF step.do = "del"
    THEN IF step.on \subseteq st.attrs THEN [st EXCEPT !.attrs = @ \ step.on]
         ELSE [st EXCEPT !.exc = "AttributeError"]
    ELSE IF step.do = "raise" THEN [st EXCEPT !.exc = CHOOSE e \in step.on : TRUE]
    ELSE IF step.do = "rotation"
    THEN [st EXCEPT !.attrs = @ \cup {"rotation"}, !.rotation = step.on]
    ELSE [st EXCEPT !.pickled = Some(st.attrs)]

\* The steps in turn, up to the first that raises.
RECURSIVE RunSteps(_, _)
RunSteps(steps, st) ==
    IF steps = <<>> \/ st.exc # "" THEN st
    ELSE RunSteps(Tail(steps), StepOn(Head(steps), st))

\* A call of a method of the object.
Call(name, steps) ==
    /\ \E out \in {RunSteps(steps, [attrs |-> obj.attrs, rotation |-> obj.rotation,
                                    pickled |-> pickled, exc |-> ""])} :
         /\ obj' = [obj EXCEPT !.attrs = out.attrs, !.rotation = out.rotation]
         /\ pickled' = out.pickled
         /\ exc' = out.exc
    /\ op' = name
    /\ UNCHANGED <<noise, tfn, ev, computed, qcVars, avVars, herm, syn, win>>

DayNoise_QC ==
    /\ obj # None /\ obj.cls = "DayNoise"
    /\ Call("QC_daily_spectra", QC_daily_steps(obj.ncomp))
    /\ args' = None

\* args: the calc_rotation the caller passed.
DayNoise_average ==
    /\ obj # None /\ obj.cls = "DayNoise"
    /\ \E calc_rotation \in BOOLEAN :
         /\ Call("average_daily_spectra", average_daily_steps(obj.ncomp, calc_rotation))
         /\ args' = Some(calc_rotation)

DayNoise_save ==
    /\ obj # None /\ obj.cls = "DayNoise"
    /\ Call("save", DayNoise_save_steps)
    /\ args' = None

StaNoise_QC ==
    /\ obj # None /\ obj.cls = "StaNoise"
    /\ Call("QC_sta_spectra", QC_sta_steps(obj.ncomp))
    /\ args' = None

StaNoise_average ==
    /\ obj # None /\ obj.cls = "StaNoise"
    /\ Call("average_sta_spectra", average_sta_steps(obj.ncomp))
    /\ args' = None

StaNoise_save ==
    /\ obj # None /\ obj.cls = "StaNoise"
    /\ Call("save", StaNoise_save_steps)
    /\ args' = None

TFNoise_transfer ==
    /\ obj # None /\ obj.cls = "TFNoise"
    /\ Call("transfer_func", transfer_func_steps(obj.ncomp))
    /\ args' = None

TFNoise_save ==
    /\ obj # None /\ obj.cls = "TFNoise"
    /\ Call("save", TFNoise_save_steps)
    /\ args' = None

\* The objects as their constructors leave them: a DayNoise of four traces,
\* a StaNoise and a TFNoise of 2, 3 or 4 channels.
ObjectsBuilt ==
    {[cls |-> "DayNoise", ncomp |-> nc, attrs |-> DayNoiseAttrs, rotation |-> {}] :
        nc \in 0..4}
    \cup {[cls |-> "StaNoise", ncomp |-> nc, attrs |-> StaNoiseAttrs, rotation |-> {}] :
        nc \in Components}
    \cup {[cls |-> "TFNoise", ncomp |-> nc, attrs |-> TFNoiseAttrs, rotation |-> {}] :
        nc \in Components}

InitObj ==
    /\ IdleQC /\ IdleTF /\ IdleAv
    /\ herm = None /\ syn = None /\ win = None
    /\ pickled = None
    /\ obj \in ObjectsBuilt

NextObj ==
    \/ DayNoise_QC
    \/ DayNoise_average
    \/ DayNoise_save
    \/ StaNoise_QC
    \/ StaNoise_average
    \/ StaNoise_save
    \/ TFNoise_transfer
    \/ TFNoise_save

SpecObj == InitObj /\ [][NextObj]_vars

\* ------------------------------------------------------------- a synthetic record
\* Most windows the record is cut into.
MaxSynWin == 2

\* The values a spectrum takes at the passband bin, the coupling factors.
SynValues == {CZero, COne, Cx(0, 1)}
\* Those of the noise in a window.
SynNoise == {CZero, Cx(0, 1)}
SynCouplings == {0, 2}

\* A one-sided spectrum of three bins with v at the passband bin, the second,
\* and the spectrum of four bins of the real trace it belongs to.
OneSided(v, edge) == <<edge, v, edge>>
TwoSided(v, edge) == <<edge, v, edge, CConj(v)>>

\* The transform of Z = noise_Z + coupling*P from those of noise_Z and P.
Coupled(N, c, P) == Arr([k \in 1..Len(N) |-> CAdd(N[k], CMul(Cx(c, 0), P[k]))])

\* The windows' spectra of a channel: calculate_windowed_fft of the record.
WindowsP(r) == [w \in 1..Len(r.Pw) |-> OneSided(r.Pw[w], COne)]
WindowsZ(r) == [w \in 1..Len(r.Pw) |-> Coupled(OneSided(r.Nw[w], CZero), r.c, WindowsP(r)[w])]

\* The sum over the first W windows of fta*np.conj(ftb) at bin k.
RECURSIVE CrossSum(_, _, _, _)
CrossSum(fta, ftb, k, W) ==
    IF W = 0 THEN CZero
    ELSE CAdd(CrossSum(fta, ftb, k, W - 1), CMul(fta[W][k], CConj(ftb[W][k])))

\* np.mean(fta[goodwins,:]*np.conj(ftb[goodwins,:]), axis=0), every window good
CrossMean(fta, ftb) ==
    Arr([k \in 1..3 |-> CDiv(CrossSum(fta, ftb, k, Len(fta)), Cx(Len(fta), 0))])

\* np.abs of an array of real numbers
ArrAbsReal(a) == Arr([k \in 1..Len(a) |-> <<Frac(Abs(a[k][1][1]), a[k][1][2]), a[k][2]>>])

\* average_daily_spectra on the two channels Z and P: self.power, self.cross
SynSpectra(r) ==
    [fld \in Fields |->
       IF fld = "cZZ" THEN Some(ArrAbsReal(CrossMean(WindowsZ(r), WindowsZ(r))))
       ELSE IF fld = "cPP" THEN Some(ArrAbsReal(CrossMean(WindowsP(r), WindowsP(r))))
       ELSE IF fld = "cZP" THEN Some(CrossMean(WindowsZ(r), WindowsP(r)))
       ELSE None]

\* The spectra correct_data takes of the same record, untapered.
SynEventFt(r) ==
    [ch \in {"ft1", "ft2", "ftZ", "ftP"} |->
       IF ch = "ftP" THEN Some(TwoSided(r.Pe, COne))
       ELSE IF ch = "ftZ"
       THEN Some(Coupled(TwoSided(r.Ne, CZero), r.c, TwoSided(r.Pe, COne)))
       ELSE None]

Syn_average ==
    /\ syn # None /\ syn.sp = None
    /\ syn' = [syn EXCEPT !.sp = Some(SynSpectra(syn))]
    /\ op' = "average_daily_spectra"
    /\ exc' = ""
    /\ args' = None
    /\ UNCHANGED <<noise, tfn, ev, computed, qcVars, avVars, herm, obj, pickled, win>>

Syn_transfer ==
    /\ syn # None /\ syn.sp # None /\ syn.transfunc = None
    /\ \E out \in {TransferLoop(syn.sp[1], DayTable(2), LoopStart)} :
         /\ syn' = [syn EXCEPT !.transfunc = Some(out.local)]
         /\ exc' = out.exc
    /\ op' = "transfer_func"
    /\ args' = None
    /\ UNCHANGED <<noise, tfn, ev, computed, qcVars, avVars, herm, obj, pickled, win>>

Syn_correct ==
    /\ syn # None /\ syn.transfunc # None /\ syn.corrspec = None
    /\ syn' = [syn EXCEPT !.corrspec =
                 Some(Corrspec("ZP", SynEventFt(syn), syn.transfunc[1], None, 3))]
    /\ op' = "correct_data"
    /\ exc' = ""
    /\ args' = None
    /\ UNCHANGED <<noise, tfn, ev, computed, qcVars, avVars, herm, obj, pickled, win>>

InitSyn ==
    /\ IdleQC /\ IdleTF /\ IdleAv /\ IdleObj
    /\ herm = None /\ win = None
    /\ \E W \in 1..MaxSynWin :
         \E Pw \in [1..W -> SynValues], Nw \in [1..W -> SynNoise] :
           \E Pe \in SynValues, Ne \in SynValues, c \in SynCouplings :
             syn = [c |-> c, Pw |-> Pw, Nw |-> Nw, Pe |-> Pe, Ne |-> Ne,
                    sp |-> None, transfunc |-> None, corrspec |-> None]

NextSyn ==
    \/ Syn_average
    \/ Syn_transfer
    \/ Syn_correct

SpecSyn == InitSyn /\ [][NextSyn]_vars

\* ------------------------------------------------------------- windows
\* Most samples in a window: window/dt.
MaxWs == 10

\* The overlap fractions a caller passes, <<numerator, denominator>>; 3/10 is
\* the demo's.
Overlaps == {<<0, 1>>, <<1, 4>>, <<3, 10>>, <<1, 2>>, <<3, 4>>}

\* int(x) of a fraction x >= 0
IntOf(q) == q[1] \div q[2]

\* np.hanning(M): zero at both ends, symmetric, rising to the middle.  A value
\* is kept as its rank from the nearer end; none of them is 1 when M is even.
Hanning(M) == [i \in 1..M |-> <<"hanning", IF i - 1 < M - i THEN i - 1 ELSE M - i>>]

\* np.ones(ws)
Ones(n) == [i \in 1..n |-> <<"one", 0>>]

\* a[start:stop] of an array a, for 0 <= start
Slice(a, start, stop) ==
    LET end == IF stop > Len(a) THEN Len(a) ELSE stop
    IN  IF start >= end THEN <<>> ELSE SubSeq(a, start + 1, end)

\* a[start:stop] = src, 0 <= start <= stop <= len(a): None when src cannot be
\* broadcast into the slice.
SliceAssign(a, start, stop, src) ==
    IF Len(src) = stop - start
    THEN Some([i \in 1..Len(a) |-> IF i > start /\ i <= stop THEN src[i - start] ELSE a[i]])
    ELSE IF Len(src) = 1
    THEN Some([i \in 1..Len(a) |-> IF i > start /\ i <= stop THEN src[1] ELSE a[i]])
    ELSE None

\* hanning = np.hanning(2*ss); wind = np.ones(ws)
\* wind[0:ss] = hanning[0:ss]; wind[-ss:ws] = hanning[ss:ws]
\* The index -0 is 0: with ss = 0 the second slice is the whole of wind.
Taper(ws, ss) ==
    SliceAssign(SliceAssign(Ones(ws), 0, ss, Slice(Hanning(2 * ss), 0, ss))[1],
                IF ss = 0 THEN 0 ELSE ws - ss, ws, Slice(Hanning(2 * ss), ss, ws))

\* QC_daily_spectra up to the spectrograms: ws, ss, the taper, and the windows
\* scipy's spectrogram cuts, nperseg - noverlap samples apart.
QC_daily_windows ==
    /\ win # None /\ win.hop = None /\ op # "QC_daily_spectra"
    /\ LET ws == IntOf(<<win.window, 1>>)
           ss == IntOf(<<win.window * win.overlap[1], win.overlap[2]>>)
       IN  IF Taper(ws, ss) = None
           THEN /\ exc' = "ValueError"
                /\ UNCHANGED win
           ELSE /\ exc' = ""
                /\ win' = [win EXCEPT !.wind = Taper(ws, ss), !.hop = Some(ws - ss)]
    /\ op' = "QC_daily_spectra"
    /\ args' = None
    /\ UNCHANGED <<noise, tfn, ev, computed, qcVars, avVars, herm, obj, pickled, syn>>

\* average_daily_spectra up to the windowed transforms: ws and the step ss
\* handed to utils.calculate_windowed_fft.
average_daily_windows ==
    /\ win # None /\ win.step = None
    /\ LET ss == IntOf(<<win.window * (win.overlap[2] - win.overlap[1]), win.overlap[2]>>)
       IN  win' = [win EXCEPT !.step = Some(ss)]
    /\ exc' = ""
    /\ op' = "average_daily_spectra"
    /\ args' = None
    /\ UNCHANGED <<noise, tfn, ev, computed, qcVars, avVars, herm, obj, pickled, syn>>

\* A day of windows of window/dt samples and an overlap in [0, 1).
InitWin ==
    /\ IdleQC /\ IdleTF /\ IdleAv /\ IdleObj
    /\ herm = None /\ syn = None
    /\ \E w \in 1..MaxWs, o \in Overlaps :
         win = [window |-> w, overlap |-> o, wind |-> None, hop |-> None, step |-> None]

NextWin ==
    \/ QC_daily_windows
    \/ average_daily_windows

SpecWin == InitWin /\ [][NextWin]_vars

\* ------------------------------------------------------------- claims: QC
Removed == UNION {removed[k] : k \in 1..Len(removed)}

Running == pc \in {"norm", "decide"}
Stopped == pc \in {"done", "raised"}

\* C3: in a run of the rejection loop the good-set never grows: the mask marks
\* as good exactly the windows no removal has switched off, in every pass, and
\* the mask the method stores is that one.
C3_GoodSetNeverGrows ==
    pc # "new" =>
        /\ \A i \in 1..Len(cols) : goodwins[i] <=> cols[i] \notin Removed
        /\ indwin = Argwhere(goodwins)
        /\ pc = "done" =>
              self_good = Some([i \in 1..Len(cols) |-> cols[i] \notin Removed])

\* Two removals and then a return: the second removal found the first one's
\* window bad and left it bad.
C3_Witness ==
    /\ pc = "done" /\ run = 1
    /\ Len(removed) = 2
    /\ self_good = Some([i \in 1..Len(cols) |-> cols[i] \notin Removed])

\* What is left to do in a run: the windows still good, then the channels
\* still to score in this pass, then the decision.
Variant ==
    CountTrue(goodwins) * (ncomp + 2) + (ncomp - ind_u) + (IF pc = "norm" THEN 1 ELSE 0)

\* C4: the loop ends, whatever the penalties and whatever the F-test answers:
\* a run in its k-th pass has removed at least k-1 windows and enters at most
\* as many passes as it has windows, and every step of a run either ends it
\* (a return, an exception) or leaves strictly less to do.
C4_LoopTerminates ==
    /\ [](pc # "new" =>
            /\ iter <= Len(cols)
            /\ CountTrue(goodwins) + iter <= Len(cols) + 1)
    /\ [][Running => (Stopped' \/ (Running' /\ Variant' < Variant /\ Variant' >= 0))]_vars

\* Two removals of one window each, and a third pass that stops.
C4_Witness ==
    /\ pc = "done" /\ run = 1
    /\ iter = 3
    /\ Len(cols) = 4

\* C5: QC is idempotent: the run on the windows that survived a first run (same
\* tol, alpha and spectra) makes one pass, removes nothing, does not fail, and
\* returns those windows all good.
C5_Idempotent ==
    run = 2 =>
        /\ pc # "raised"
        /\ iter = 1
        /\ removed = <<>>
        /\ pc = "done" => self_good = Some(AllTrue(Len(cols)))

\* The second run has returned on survivors that are not all the windows of the
\* first, which ended on flagged windows the F-test kept.
C5_Witness ==
    /\ run = 2 /\ pc = "done"
    /\ \E p \in 1..Len(cols) : cols[p] # p
    /\ ftest_sig = Some(FALSE)

FlaggedCols == {indwin[p] : p \in {q \in 1..Len(penalty) : ExceedsStd(penalty, tol)[q]}}

\* C7: a pass that flags no window stops and stores the current mask; a pass
\* that flags some removes them exactly when the F-test is below alpha: then
\* exactly the flagged windows, by original index, turn bad, every other entry
\* keeps its value and the loop goes on; else the loop stops, the mask is
\* stored as it was and the flagged windows stay good.
C7_PassRule ==
    [][pc = "decide" =>
        IF FlaggedCols = {}
        THEN /\ pc' = "done"
             /\ goodwins' = goodwins
             /\ self_good' = Some(goodwins)
        ELSE /\ ftest_sig' \in {Some(TRUE), Some(FALSE)}
             /\ ftest_sig' = Some(TRUE) =>
                  /\ pc' = "norm"
                  /\ goodwins' = [i \in 1..Len(goodwins) |->
                                    goodwins[i] /\ i \notin FlaggedCols]
                  /\ self_good' = self_good
             /\ ftest_sig' = Some(FALSE) =>
                  /\ pc' = "done"
                  /\ goodwins' = goodwins
                  /\ self_good' = Some(goodwins)]_vars

\* A second removal, of a window whose place in the good-set is not its index.
C7_Witness ==
    /\ Len(removed) = 2
    /\ \E w \in removed[2] : \E v \in removed[1] : v < w
    /\ ftest_sig = Some(TRUE)

C21_SameLoop ==
    [][pc = "decide" =>
        /\ KillOf("daily", penalty, tol) = KillOf("sta", penalty, tol)
        /\ \E fsig \in BOOLEAN :
             \A st \in {"daily", "sta"} :
               LET d == DecideOf(st, goodwins, indwin, penalty, tol, fsig)
               IN  /\ goodwins' = d.goodwins
                   /\ indwin' = d.indwin
                   /\ (pc' = "done") <=> d.moveon
                   /\ d.moveon => self_good' = Some(d.goodwins)]_vars

\* QC_sta_spectra returned after two passes, the first of which removed days.
C21_Witness ==
    /\ stage = "sta" /\ run = 1 /\ pc = "done"
    /\ iter = 2
    /\ Len(removed) = 1
    /\ self_good # None /\ CountTrue(self_good[1]) < Len(cols)

\* ------------------------------------------------------------- claims: station average
GoodDayIds(s) == {d \in 1..Len(s.nwins) : s.gooddays[1][d]}

\* Sum over the days of S of the value at bin i of a field, each day counted
\* w[d] times.
RECURSIVE DaySum(_, _, _, _, _)
DaySum(S, fld, s, i, w) ==
    IF S = {} THEN CZero
    ELSE LET d == CHOOSE x \in S : TRUE
         IN  CAdd(CMul(DaySpectrum(fld, s.level[d])[i], Cx(w[d], 0)),
                  DaySum(S \ {d}, fld, s, i, w))

RECURSIVE NwinsSum(_, _)
NwinsSum(S, s) ==
    IF S = {} THEN 0
    ELSE LET d == CHOOSE x \in S : TRUE IN s.nwins[d] + NwinsSum(S \ {d}, s)

\* C8: after average_sta_spectra returns, every spectrum populated for ncomp
\* holds, at every bin, sum(day_value*day_nwins)/sum(day_nwins) over the good
\* days only, the other spectra are None, and when the good days all have the
\* same window count the value is the simple mean of the good days' values.
C8_WeightedMean ==
    (op = "average_sta_spectra" /\ exc = "") =>
        /\ avg # None
        /\ \A fld \in Fields :
             LET good == GoodDayIds(sta[1])
                 ones == [d \in 1..Len(sta[1].nwins) |-> 1]
             IN  IF fld \in StaPopulated(sta[1].ncomp)
                 THEN /\ avg[1][fld] # None
                      /\ Len(avg[1][fld][1]) = 2
                      /\ \A i \in 1..2 :
                           /\ CFinite(avg[1][fld][1][i])
                           /\ CMul(avg[1][fld][1][i], Cx(NwinsSum(good, sta[1]), 0))
                                = DaySum(good, fld, sta[1], i, sta[1].nwins)
                           /\ (\A d, e \in good : sta[1].nwins[d] = sta[1].nwins[e])
                                => CMul(avg[1][fld][1][i], Cx(Cardinality(good), 0))
                                     = DaySum(good, fld, sta[1], i, ones)
                 ELSE avg[1][fld] = None

\* Three days of 1, 2 and 2 windows, the last one bad: cZZ at the first bin
\* is (3*1 + 4*2)/3, not the simple mean 7/2 and not the mean over all days.
C8_Witness ==
    /\ op = "average_sta_spectra" /\ exc = ""
    /\ sta[1].ncomp = 4
    /\ sta[1].gooddays = Some(<<TRUE, TRUE, FALSE>>)
    /\ sta[1].nwins = <<1, 2, 2>>
    /\ sta[1].level = <<0, 1, 0>>
    /\ avg[1]["cZZ"][1][1] = <<Frac(11, 3), Whole(0)>>
    /\ avg[1]["cHP"] # None

\* ------------------------------------------------------------- claims: tables
\* The row of the table of models for ncomp channels.
TableRow(nc) ==
    IF nc = 2 THEN Table(TRUE, FALSE, FALSE, FALSE, FALSE, FALSE)
    ELSE IF nc = 3 THEN Table(FALSE, TRUE, TRUE, FALSE, TRUE, FALSE)
    ELSE Table(TRUE, TRUE, TRUE, TRUE, TRUE, TRUE)

\* C1: a DayNoise, a StaNoise or an EventStream built with ncomp in {2,3,4}
\* holds the row of the table for its ncomp: ZP alone for 2; Z1, Z2-1 and ZH
\* for 3; all six models for 4.
C1_TableIsRow ==
    /\ (noise # None /\ noise[1].ncomp \in Components) =>
          noise[1].tf_list = TableRow(noise[1].ncomp)
    /\ (ev # None /\ ev[1].ncomp \in Components) =>
          ev[1].ev_list = TableRow(ev[1].ncomp)

\* C2: when transfer_func returns on a tf_list whose keys are the six model
\* names, transfunc holds exactly the models tf_list flags True.
C2_KeysAreEnabled ==
    (op = "transfer_func" /\ exc = "" /\ Keys(tfn[1].tf_list) = Models) =>
        /\ tfn[1].transfunc # None
        /\ DOMAIN tfn[1].transfunc[1] = Enabled(tfn[1].tf_list)

\* transfer_func has returned on a table that is no row of the class tables:
\* ZP and ZH on, the other four off.
C2_Witness ==
    /\ op = "transfer_func" /\ exc = ""
    /\ tfn[1].tf_list = Table(TRUE, FALSE, FALSE, FALSE, TRUE, FALSE)
    /\ DOMAIN tfn[1].transfunc[1] = {"ZP", "ZH"}

\* C9: the ZP model transfer_func stores is cZP/cPP at every bin: TF_ZP has
\* one value per bin of f, TF_ZP*cPP gives back cZP wherever cPP is not zero,
\* and TF_ZP is a at every bin when cZP = a*cPP for a real a; and a run that
\* returns with ZP enabled has stored it.
C9_ZPIsRatio ==
    /\ (op = "transfer_func" /\ exc = "" /\ "ZP" \in Enabled(tfn[1].tf_list)) =>
          "ZP" \in DOMAIN tfn[1].transfunc[1]
    /\ (tfn # None /\ tfn[1].transfunc # None /\ "ZP" \in DOMAIN tfn[1].transfunc[1]) =>
          LET TF == tfn[1].transfunc[1]["ZP"]["TF_ZP"]
              cPP == tfn[1].sp["cPP"][1]
              cZP == tfn[1].sp["cZP"][1]
          IN  /\ DOMAIN tfn[1].transfunc[1]["ZP"] = {"TF_ZP"}
              /\ Len(TF) = Len(tfn[1].f)
              /\ \A i \in 1..Len(TF) :
                   cPP[i] # CZero => CMul(TF[i], cPP[i]) = cZP[i]
              /\ \A a \in Scales :
                   (\A i \in 1..Len(TF) : cPP[i] # CZero /\ cZP[i] = CMul(<<a, Whole(0)>>, cPP[i]))
                      => \A i \in 1..Len(TF) : TF[i] = <<a, Whole(0)>>

\* transfer_func has returned TF_ZP = -1/2 at every bin, for a cPP that
\* differs from bin to bin and cZP = -cPP/2.
C9_Witness ==
    /\ op = "transfer_func" /\ exc = ""
    /\ "ZP" \in DOMAIN tfn[1].transfunc[1]
    /\ tfn[1].sp["cPP"][1] = RealArr(<<1, 2, 4>>)
    /\ tfn[1].sp["cZP"][1] = ArrScale(Frac(-1, 2), RealArr(<<1, 2, 4>>))
    /\ \A i \in 1..3 : tfn[1].transfunc[1]["ZP"]["TF_ZP"][i] = <<Frac(-1, 2), Whole(0)>>

\* C23: a call of transfer_func, whether it returns or raises, leaves the
\* spectra, f, tilt and tf_list of the TFNoise and the object the containers
\* came from as they were; it writes transfunc only.
C23_SpectraAreInputs ==
    [][(tfn # None /\ op' = "transfer_func") =>
        /\ tfn' # None
        /\ tfn'[1].sp = tfn[1].sp
        /\ tfn'[1].f = tfn[1].f
        /\ tfn'[1].tilt = tfn[1].tilt
        /\ tfn'[1].tf_list = tfn[1].tf_list
        /\ noise' = noise
        /\ ev' = ev]_vars

\* transfer_func has returned with all six models, having read every spectrum.
C23_Witness ==
    /\ op = "transfer_func" /\ exc = ""
    /\ tfn[1].transfunc # None
    /\ DOMAIN tfn[1].transfunc[1] = Models
    /\ \A fld \in Fields : tfn[1].sp[fld] # None

\* ------------------------------------------------------------- claims: correction
\* C10: a call of correct_data with a TFNoise whose f the event's frequency
\* axis does not match (np.allclose fails or cannot compare them) raises,
\* computes no corrected trace and leaves the EventStream, its attribute
\* correct included, as it was.
C10_MismatchAborts ==
    [][(ev # None /\ tfn # None /\ op' = "correct_data"
        /\ AllClose(ev[1].f, tfn[1].f) # "True")
       => (exc' # "" /\ computed' = {} /\ ev' = ev)]_vars

\* correct_data has raised for a frequency axis that differs, on an event that
\* held corrected traces of an earlier call, and it still holds them.
C10_Witness ==
    /\ op = "correct_data"
    /\ exc = "Exception: Frequency axes are different"
    /\ ev[1].correct # None
    /\ ev[1].correct[1] # EmptyDict
    /\ computed = {}

\* The models both the TFNoise t and the event e switch on.
BothEnabled(t, e) ==
    {k \in Models \cap Keys(t.tf_list) : Get(t.tf_list, k) /\ Get(e.ev_list, k)}

\* C14: when correct_data returns, correct holds one trace of ws samples for
\* every model that tf_list and ev_list both switch on, under the model's
\* name, and nothing else.
C14_CorrectKeys ==
    (op = "correct_data" /\ exc = "") =>
        /\ ev[1].correct # None
        /\ DOMAIN ev[1].correct[1] = BothEnabled(tfn[1], ev[1])
        /\ computed = BothEnabled(tfn[1], ev[1])
        /\ \A k \in DOMAIN ev[1].correct[1] : Len(ev[1].correct[1][k]) = ev[1].ws

\* A three-channel event corrected with the transfer functions of a
\* four-channel day: the three models of the event, of the six of the day.
C14_Witness ==
    /\ op = "correct_data" /\ exc = ""
    /\ Enabled(tfn[1].tf_list) = Models
    /\ ev[1].ncomp = 3
    /\ DOMAIN ev[1].correct[1] = {"Z1", "Z2-1", "ZH"}

\* The transfer functions tf with the coefficient coef of model set to zero.
ZeroedAt(tf, model, coef) ==
    [tf EXCEPT ![model][coef] = [k \in 1..Len(tf[model][coef]) |-> CZero]]

\* A four-channel event has been corrected with transfer functions that hold
\* the three models of the cascade on the horizontals.
CascadeApplied ==
    /\ op = "correct_data" /\ exc = ""
    /\ ev[1].ncomp = 4
    /\ tfn[1].transfunc # None
    /\ {"Z1", "Z2-1", "ZP-21"} \subseteq DOMAIN tfn[1].transfunc[1]
    /\ {"Z1", "Z2-1", "ZP-21"} \subseteq DOMAIN ev[1].correct[1]

\* C22: correct_data subtracts in the order of the cascade, with the
\* coefficients of that cascade: Z2-1 is Z - TF_Z1*F1 - (F2 - TF_21*F1)*TF_Z2-1
\* and ZP-21 that minus (FP - TF_P1*F1 - (F2 - TF_21*F1)*TF_P2-1)*TF_ZP-21, so
\* ZP-21 with TF_ZP-21 = 0 is Z2-1 and Z2-1 with TF_Z2-1 = 0 is Z1.
C22_Cascade ==
    CascadeApplied =>
        LET tf == tfn[1].transfunc[1]
            ft == ev[1].ft
            n == Len(ev[1].f)
            F(model, coef) == Hermitian(tf[model][coef], n)
            ft1 == ft["ft1"][1]
            ft2 == ft["ft2"][1]
            ftZ == ft["ftZ"][1]
            ftP == ft["ftP"][1]
            two == ArrSub(ft2, ArrMul(F("Z2-1", "TF_21"), ft1))
            z21 == ArrSub(ArrSub(ftZ, ArrMul(F("Z1", "TF_Z1"), ft1)),
                          ArrMul(two, F("Z2-1", "TF_Z2-1")))
            pre == ArrSub(ArrSub(ftP, ArrMul(F("ZP-21", "TF_P1"), ft1)),
                          ArrMul(two, F("ZP-21", "TF_P2-1")))
            zp21 == ArrSub(z21, ArrMul(pre, F("ZP-21", "TF_ZP-21")))
        IN  /\ tf["ZP-21"]["TF_Z1"] = tf["Z1"]["TF_Z1"]
            /\ tf["ZP-21"]["TF_21"] = tf["Z2-1"]["TF_21"]
            /\ tf["ZP-21"]["TF_Z2-1"] = tf["Z2-1"]["TF_Z2-1"]
            /\ ev[1].correct[1]["Z2-1"] = SubSeq(RealIfft(z21), 1, ev[1].ws)
            /\ ev[1].correct[1]["ZP-21"] = SubSeq(RealIfft(zp21), 1, ev[1].ws)
            /\ Corrspec("ZP-21", ft, ZeroedAt(tf, "ZP-21", "TF_ZP-21"), tfn[1].tilt, n)
                 = Corrspec("Z2-1", ft, tf, tfn[1].tilt, n)
            /\ Corrspec("Z2-1", ft, ZeroedAt(tf, "Z2-1", "TF_Z2-1"), tfn[1].tilt, n)
                 = Corrspec("Z1", ft, tf, tfn[1].tilt, n)

\* The three corrected traces differ: each stage of the cascade took
\* something off the vertical.
C22_Witness ==
    /\ CascadeApplied
    /\ ev[1].correct[1]["Z1"] # ev[1].correct[1]["Z2-1"]
    /\ ev[1].correct[1]["Z2-1"] # ev[1].correct[1]["ZP-21"]

\* Z2-1 is enabled only with Z1, and ZP-H only with ZH.
Nested(items) ==
    /\ "Z2-1" \in Enabled(items) => "Z1" \in Enabled(items)
    /\ "ZP-H" \in Enabled(items) => "ZH" \in Enabled(items)

\* The branch of correct_data that raised: the first model in the order of
\* tf_list that both tables enable and that has no trace, "" when there is none.
RaisedAt(t, e, done) ==
    LET open == {i \in 1..Len(t.tf_list) :
                   /\ t.tf_list[i][1] \in Models \ done
                   /\ t.tf_list[i][2]
                   /\ Get(e.ev_list, t.tf_list[i][1])}
    IN  IF open = {} THEN ""
        ELSE t.tf_list[CHOOSE i \in open : \A j \in open : i <= j][1]

\* C25: in every table DayNoise, StaNoise or EventStream builds, Z2-1 is
\* enabled only if Z1 is and ZP-H only if ZH is; so with a TFNoise that has the
\* table of a noise object, correct_data never looks up the coefficients of Z1
\* (for Z2-1) or of ZH (for ZP-H) when transfer_func did not produce them.
C25_DependenciesProduced ==
    /\ noise # None => Nested(noise[1].tf_list)
    /\ ev # None => Nested(ev[1].ev_list)
    /\ (/\ op = "correct_data" /\ exc = "KeyError"
        /\ noise # None /\ tfn[1].tf_list = noise[1].tf_list) =>
          /\ RaisedAt(tfn[1], ev[1], computed) = "Z2-1" => "Z1" \in DOMAIN tfn[1].transfunc[1]
          /\ RaisedAt(tfn[1], ev[1], computed) = "ZP-H" => "ZH" \in DOMAIN tfn[1].transfunc[1]

\* The table of a four-channel day, and an event of four channels corrected
\* with it: Z2-1 and ZP-H found the coefficients of Z1 and of ZH.
C25_Witness ==
    /\ op = "correct_data" /\ exc = ""
    /\ noise # None /\ noise[1].cls = "DayNoise" /\ tfn[1].tf_list = noise[1].tf_list
    /\ {"Z2-1", "ZP-H"} \subseteq computed
    /\ {"Z1", "ZH"} \subseteq DOMAIN tfn[1].transfunc[1]

\* ------------------------------------------------------------- claims: constructors
EmptyErrors == {"Exception: Container Power is empty", "Exception: Container Cross is empty"}

\* C11: a TFNoise or StaNoise constructor raises the empty-container error
\* exactly when every field of the Power container or every field of the
\* Cross container is absent, and a TFNoise handed two containers that each
\* hold a field is built.
C11_EmptyExactly ==
    (op \in {"TFNoise", "StaNoise"} /\ args # None) =>
        /\ (exc \in EmptyErrors) <=> (args[1].power.empty \/ args[1].cross.empty)
        /\ (op = "TFNoise" /\ ~args[1].power.empty /\ ~args[1].cross.empty)
             => (exc = "" /\ tfn # None)

\* The arguments among tr1, tr2, trZ, trP that are no Trace object.
NonTraces(given) == {i \in 1..4 : given[i] \notin {"Empty", "Data"}}

\* C12: a DayNoise constructor handed one, two or three arguments that are no
\* Trace object raises and leaves no attribute set; handed four Trace objects,
\* empty or not, it does not raise that error.
C12_NonTraceRaises ==
    (op = "DayNoise" /\ args # None) =>
        /\ Cardinality(NonTraces(args[1])) \in 1..3
             => (exc = "Exception: not a Trace object" /\ noise = None)
        /\ NonTraces(args[1]) = {}
             => (exc = "" /\ noise # None /\ noise[1].cls = "DayNoise")

C12_Witness ==
    /\ op = "DayNoise"
    /\ args = Some(<<"Data", "Other", "Data", "Empty">>)
    /\ exc = "Exception: not a Trace object"
    /\ noise = None

\* C16: after DayNoise is built from four Trace objects, ncomp is the number
\* of non-empty traces and is one of 2, 3, 4, the only values the model table
\* is built from.
C16_NcompInRange ==
    (op = "DayNoise" /\ args # None /\ NonTraces(args[1]) = {} /\ exc = "") =>
        /\ noise # None
        /\ noise[1].ncomp = Cardinality({i \in 1..4 : args[1][i] = "Data"})
        /\ noise[1].ncomp \in {2, 3, 4}

\* ------------------------------------------------------------- claims: transfer_func
\* C13: transfer_func raises whenever tf_list holds a key that is none of the
\* six model names, whatever the flag of that key.
C13_UnknownKeyRaises ==
    (op = "transfer_func" /\ ~(Keys(tfn[1].tf_list) \subseteq Models)) =>
        exc \in {"Exception: Incorrect key", "TypeError"}

\* An unknown key that is switched off, after the only model that is on.
C13_Witness ==
    /\ op = "transfer_func"
    /\ tfn[1].tf_list = InsertAt(DayTable(2), 4, <<"Z2", FALSE>>)
    /\ exc = "Exception: Incorrect key"
    /\ tfn[1].transfunc # None
    /\ DOMAIN tfn[1].transfunc[1] = {"ZP"}

\* C27: when transfer_func raises on a key it does not recognise, the
\* transfunc attribute is as it was before the call (absent if never set),
\* wherever the key stands in the table.
C27_NoPartialResult ==
    [][(tfn # None /\ op' = "transfer_func" /\ exc' = "Exception: Incorrect key") =>
        tfn'[1].transfunc = tfn[1].transfunc]_vars

\* ------------------------------------------------------------- claims: full spectrum
\* C15: the full spectrum of a one-sided array of n bins has N = 2(n-1) bins
\* and full[k] = conj(full[(N-k) mod N]) at every k in 0..N-1, the DC bin and
\* the Nyquist bin included.
C15_HermitianSymmetric ==
    (herm # None /\ herm.full # None) =>
        LET full == herm.full[1]
            N == 2 * (herm.n - 1)
        IN  /\ Len(full) = N
            /\ \A k \in 0..(N - 1) : full[k + 1] = CConj(full[((N - k) % N) + 1])

\* C15 (amended): for n >= 2 the full spectrum has N = 2(n-1) bins, keeps the
\* one-sided bins as they are and has full[k] = conj(full[N-k]) at every k
\* other than the DC bin and the Nyquist bin; for n = 1 it is TF itself.
C15_HermitianInterior ==
    (herm # None /\ herm.full # None) =>
        LET full == herm.full[1]
            n == herm.n
            N == 2 * (n - 1)
        IN  /\ SubSeq(full, 1, n) = herm.TF
            /\ n = 1 => full = herm.TF
            /\ n >= 2 =>
                 /\ Len(full) = N
                 /\ \A k \in 0..(N - 1) :
                      k \notin {0, n - 1} => full[k + 1] = CConj(full[((N - k) % N) + 1])

\* A four-bin array with a complex DC bin and its six-bin full spectrum.
C15_Witness ==
    /\ herm # None
    /\ herm.TF = <<Cx(0, 1), Cx(2, -1), Cx(0, 1), Cx(1, 0)>>
    /\ herm.full = Some(<<Cx(0, 1), Cx(2, -1), Cx(0, 1), Cx(1, 0), Cx(0, -1), Cx(2, 1)>>)

\* ------------------------------------------------------------- claims: attributes
\* C17: the object save pickles holds none of the raw inputs: a DayNoise none
\* of tr1, tr2, trZ, trP; a StaNoise or a TFNoise none of the spectra unpacked
\* from the Power, Cross and Rotation containers.
C17_SaveDiscards ==
    (obj # None /\ op = "save" /\ exc = "") =>
        /\ pickled # None
        /\ obj.cls = "DayNoise" => pickled[1] \cap {"tr1", "tr2", "trZ", "trP"} = {}
        /\ obj.cls \in {"StaNoise", "TFNoise"} => pickled[1] \cap Fields = {}

\* C18: average_daily_spectra on two channels returns without error with a
\* rotation container whose fields are all absent, whatever calc_rotation;
\* on three or four channels the container is populated exactly when
\* calc_rotation is set.
C18_RotationByNcomp ==
    (/\ obj # None /\ obj.cls = "DayNoise"
     /\ op = "average_daily_spectra" /\ args # None
     /\ {"goodwins"} \cup ChannelTraces(obj.ncomp) \subseteq obj.attrs) =>
        /\ exc = ""
        /\ "rotation" \in obj.attrs
        /\ obj.ncomp = 2 => obj.rotation = {}
        /\ obj.ncomp >= 3 => (obj.rotation # {} <=> args[1])

\* Two channels, calc_rotation set: the call returned and stored Rotation().
C18_Witness ==
    /\ obj # None /\ obj.cls = "DayNoise" /\ obj.ncomp = 2
    /\ op = "average_daily_spectra" /\ args = Some(TRUE) /\ exc = ""
    /\ "rotation" \in obj.attrs /\ obj.rotation = {}

\* C26: after QC_daily_spectra and average_daily_spectra on a DayNoise of 2,
\* 3 or 4 channels, with calc_rotation set or not, every spectrum
\* transfer_func reads for a model enabled in the DayNoise's tf_list is
\* populated.
C26_EnabledArePopulated ==
    (/\ obj # None /\ obj.cls = "DayNoise" /\ obj.ncomp \in Components
     /\ op = "average_daily_spectra" /\ exc = "" /\ args # None
     /\ {"goodwins", "power", "cross", "rotation"} \subseteq obj.attrs) =>
        UNION {Reads(key) : key \in Enabled(DayTable(obj.ncomp))}
            \subseteq Populated(obj.ncomp, FALSE) \cup obj.rotation

\* ------------------------------------------------------------- claims: synthetic record
\* p < q for two fractions, false when either is not finite.
QLt(p, q) == IsFinite(p) /\ IsFinite(q) /\ p[1] * q[2] < q[1] * p[2]

\* The vertical spectrum of the record before and after the correction, at
\* the passband bin.
SynBefore == SynEventFt(syn)["ftZ"][1][2]
SynAfter == syn.corrspec[1][2]

SynEps ==
    CDiv(CrossSum(Arr([w \in 1..Len(syn.Nw) |-> <<syn.Nw[w]>>]),
                  Arr([w \in 1..Len(syn.Pw) |-> <<syn.Pw[w]>>]), 1, Len(syn.Pw)),
         CrossSum(Arr([w \in 1..Len(syn.Pw) |-> <<syn.Pw[w]>>]),
                  Arr([w \in 1..Len(syn.Pw) |-> <<syn.Pw[w]>>]), 1, Len(syn.Pw)))

WinWs == win.window
WinSs == IntOf(<<win.window * win.overlap[1], win.overlap[2]>>)

\* C24: for every window of ws >= 1 samples and every overlap in [0, 1),
\* QC_daily_spectra builds without error a taper of ws samples that is
\* symmetric, rises over its first ss samples, falls over its last ss and is
\* 1 in between.
C24_TaperBuilt ==
    (win # None /\ op = "QC_daily_spectra") =>
        /\ exc = ""
        /\ win.wind # None
        /\ LET wind == win.wind[1]
           IN  /\ Len(wind) = WinWs
               /\ \A i \in 1..WinWs : wind[i] = wind[WinWs + 1 - i]
               /\ \A i \in 1..WinSs : wind[i] = <<"hanning", i - 1>>
               /\ \A i \in (WinWs - WinSs + 1)..WinWs : wind[i] = <<"hanning", WinWs - i>>
               /\ \A i \in (WinSs + 1)..(WinWs - WinSs) : wind[i] = <<"one", 0>>

\* C28: the hop between consecutive QC windows, ws - int(window*overlap/dt),
\* equals the averaging step int(window*(1 - overlap)/dt), so that window i of
\* the mask and window i of the averaged spectra start at the same sample.
C28_HopEqualsStep ==
    (win # None /\ win.hop # None /\ win.step # None) => win.hop[1] = win.step[1]

====
